---- MODULE Spec2Model ----
(***************************************************************************)
(* TakosEncryptInk (rust/src): the key managers, the envelope formats and  *)
(* the message layer, as applied by a caller to records it generates,      *)
(* stores, alters and feeds back.  The library keeps no state; the state   *)
(* of the model is the last call made on it (function, arguments, result)  *)
(* and the call whose result was fed into it.                              *)
(*                                                                         *)
(* Text.  Every &str that crosses the API is one of                        *)
(*   Lit(s)    a literal string,                                           *)
(*   Chars(q)  a string given character by character (UUID candidates),    *)
(*   B64(b)    BASE64.encode(b) of the bytes b,                            *)
(*   Txt(d)    serde_json::to_string of the JSON value d.                  *)
(* Bytes are records tagged by `kind`; what a cryptographic primitive      *)
(* returns names the key material, randomness and data it was computed     *)
(* from, so that verify and decrypt can be computed as the provider        *)
(* computes them (a signature verifies under the matching public key over  *)
(* the same data only; AES-GCM opens under the same key and nonce only).   *)
(***************************************************************************)
EXTENDS Integers, Sequences, FiniteSets, TLC

VARIABLES call, prev, thr, helper, os_rng

vars == <<call, prev, thr, helper, os_rng>>

\* the threads inside generate_master_key and what the platform RNG gave out
tvars == <<thr, helper, os_rng>>

(***************************************************************************)
(* Option / Result / panic                                                 *)
(***************************************************************************)
None == [k |-> "none"]

Panic == [k |-> "panic"]

Some(v) == [k |-> "some", v |-> v]

IsSome(r) == r.k = "some"

(***************************************************************************)
(* Strings                                                                 *)
(***************************************************************************)
Lit(s) == [c |-> "lit", lit |-> s]

Chars(q) == [c |-> "chars", chars |-> q]

B64(b) == [c |-> "b64", bytes |-> b]

Txt(d) == [c |-> "json", doc |-> d]

(***************************************************************************)
(* JSON values (serde_json::Value)                                         *)
(***************************************************************************)
JStr(s) == [t |-> "str", s |-> s]

JNum(n) == [t |-> "num", n |-> n]

JBool(b) == [t |-> "bool", b |-> b]

JNull == [t |-> "null"]

JObj(f) == [t |-> "obj", o |-> f]

JArr(a) == [t |-> "arr", a |-> a]

Absent == [t |-> "absent"]

\* serde_json::from_str::<Value>(s): Ok for the text of a JSON value only
from_str_Value(s) == IF s.c = "json" THEN Some(s.doc) ELSE None

\* Value::get(name): None on a non-object and on a missing member
Get(d, name) == IF d.t = "obj" /\ name \in DOMAIN d.o THEN d.o[name] ELSE Absent

as_str(x) == IF x.t = "str" THEN Some(x.s) ELSE None

as_u64(x) == IF x.t = "num" THEN Some(x.n) ELSE None

as_bool(x) == IF x.t = "bool" THEN Some(x.b) ELSE None

\* Option<String> of a serialized struct: None is written as null
OptStr(o) == IF o.k = "some" THEN JStr(o.v) ELSE JNull

(***************************************************************************)
(* serde-derived structs of type.rs.  from_str::<T> is Ok iff the text is  *)
(* a JSON object holding every required member with its type; an Option   *)
(* member may be missing or null; other members are ignored.               *)
(***************************************************************************)
ReqStr(d, name) == Get(d, name).t = "str"

ReqU64(d, name) == Get(d, name).t = "num"

OptStrOk(d, name) == Get(d, name).t \in {"absent", "null", "str"}

OptU64Ok(d, name) == Get(d, name).t \in {"absent", "null", "num"}

IsObjText(s) == s.c = "json" /\ s.doc.t = "obj"

\* the String member `name` of a struct parsed from s
F(s, name) == s.doc.o[name].s

\* the Option<String> member `name` of a struct parsed from s
FOpt(s, name) == as_str(Get(s.doc, name))

from_str_MasterKey(s) == IsObjText(s) /\ ReqStr(s.doc, "keyType") /\ ReqStr(s.doc, "key")

from_str_DeviceKey(s) == IsObjText(s) /\ ReqStr(s.doc, "keyType") /\ ReqStr(s.doc, "key")

from_str_ServerKey(s) ==
    /\ IsObjText(s)
    /\ ReqStr(s.doc, "keyType")
    /\ ReqStr(s.doc, "key")
    /\ ReqU64(s.doc, "timestamp")

from_str_AccountKey(s) ==
    /\ IsObjText(s)
    /\ ReqStr(s.doc, "keyType")
    /\ ReqStr(s.doc, "key")
    /\ ReqStr(s.doc, "algorithm")
    /\ ReqU64(s.doc, "timestamp")

from_str_IdentityKey(s) ==
    /\ IsObjText(s)
    /\ ReqStr(s.doc, "keyType")
    /\ ReqStr(s.doc, "key")
    /\ ReqStr(s.doc, "algorithm")
    /\ ReqU64(s.doc, "timestamp")
    /\ ReqStr(s.doc, "sessionUuid")

from_str_RoomKey(s) == from_str_IdentityKey(s)

from_str_ShareKey(s) == from_str_IdentityKey(s)

from_str_ShareSignKey(s) == from_str_IdentityKey(s)

from_str_MigrateKey(s) ==
    /\ IsObjText(s)
    /\ ReqStr(s.doc, "keyType")
    /\ ReqStr(s.doc, "key")
    /\ OptU64Ok(s.doc, "timestamp")

from_str_MigrateSignKey(s) == from_str_MigrateKey(s)

from_str_Sign(s) ==
    /\ IsObjText(s)
    /\ ReqStr(s.doc, "keyHash")
    /\ ReqStr(s.doc, "signature")
    /\ ReqStr(s.doc, "keyType")
    /\ OptStrOk(s.doc, "algorithm")

from_str_EncryptedData(s) ==
    /\ IsObjText(s)
    /\ ReqStr(s.doc, "keyType")
    /\ ReqStr(s.doc, "keyHash")
    /\ ReqStr(s.doc, "encryptedData")
    /\ ReqStr(s.doc, "iv")
    /\ OptStrOk(s.doc, "algorithm")
    /\ OptStrOk(s.doc, "cipherText")

(***************************************************************************)
(* Bytes.  Lengths of the provider's encodings.                            *)
(***************************************************************************)
DSA87_PUB_LEN == 2592

DSA87_PRIV_LEN == 4896

DSA65_PUB_LEN == 1952

DSA65_PRIV_LEN == 4032

KEM_PUB_LEN == 1184

KEM_PRIV_LEN == 2400

SYM_KEY_LEN == 32

KEM_CT_LEN == 1088

IV_LEN == 12

SHA256_LEN == 32

KeyLen(alg, half) ==
    CASE alg = "ML-DSA-87" /\ half = "pub" -> DSA87_PUB_LEN
      [] alg = "ML-DSA-87" /\ half = "priv" -> DSA87_PRIV_LEN
      [] alg = "ML-DSA-65" /\ half = "pub" -> DSA65_PUB_LEN
      [] alg = "ML-DSA-65" /\ half = "priv" -> DSA65_PRIV_LEN
      [] alg = "ML-KEM-768" /\ half = "pub" -> KEM_PUB_LEN
      [] alg = "ML-KEM-768" /\ half = "priv" -> KEM_PRIV_LEN
      [] alg = "AES-256" /\ half = "sym" -> SYM_KEY_LEN

\* the encoding of the key (half) that key generation number `seed` drew
KeyBytes(alg, half, seed) ==
    [kind |-> "key", alg |-> alg, half |-> half, seed |-> seed, len |-> KeyLen(alg, half)]

\* 12 bytes drawn from OsRng
IvBytes(id) == [kind |-> "iv", id |-> id, len |-> IV_LEN]

\* the shared secret of an encapsulation against key `seed` with randomness r;
\* seed <<"rejected", 0>> is the secret ML-KEM's implicit rejection returns for a
\* foreign ciphertext
SharedSecret(seed, r) == [kind |-> "ss", kem |-> seed, r |-> r]

ByteLen(b) ==
    CASE b.kind = "key" -> b.len
      [] b.kind = "iv" -> b.len
      [] b.kind = "sha256" -> SHA256_LEN
      [] b.kind = "ss" -> SYM_KEY_LEN
      [] b.kind = "kemct" -> KEM_CT_LEN

\* BASE64.decode(s)
b64_decode(s) == IF s.c = "b64" THEN Some(s.bytes) ELSE None

\* utils.rs
key_hash(input) == B64([kind |-> "sha256", of |-> input])

(***************************************************************************)
(* core.rs: ^[0-9a-f]{8}-[0-9a-f]{4}-7[0-9a-f]{3}-[89ab][0-9a-f]{3}-       *)
(* [0-9a-f]{12}$ over the characters of the string                         *)
(***************************************************************************)
HexLower == {"0", "1", "2", "3", "4", "5", "6", "7", "8", "9", "a", "b", "c", "d", "e", "f"}

is_valid_uuid_v7(uuid) ==
    /\ uuid.c = "chars"
    /\ Len(uuid.chars) = 36
    /\ \A i \in 1..36 :
         LET ch == uuid.chars[i] IN
         CASE i \in {9, 14, 19, 24} -> ch = "-"
           [] i = 15 -> ch = "7"
           [] i = 20 -> ch \in {"8", "9", "a", "b"}
           [] OTHER -> ch \in HexLower

(***************************************************************************)
(* u64 / i64 arithmetic of the freshness check, exact: a 64-bit word is    *)
(* <<h, m, l>> with value h * 2^44 + m * 2^22 + l, h < 2^20, m, l < 2^22.  *)
(***************************************************************************)
LimbMod == 2 ^ 22

TopMod == 2 ^ 20

IsWord(a) == a[1] \in 0..(TopMod - 1) /\ a[2] \in 0..(LimbMod - 1) /\ a[3] \in 0..(LimbMod - 1)

\* a - b modulo 2^64
wrapping_sub(a, b) ==
    LET l == a[3] - b[3]
        bl == IF l < 0 THEN 1 ELSE 0
        m == a[2] - b[2] - bl
        bm == IF m < 0 THEN 1 ELSE 0
        h == a[1] - b[1] - bm
    IN  <<(h + TopMod) % TopMod, (m + LimbMod) % LimbMod, (l + LimbMod) % LimbMod>>

WordZero == <<0, 0, 0>>

\* the sign bit of the word read as i64 (`as i64` keeps the bits)
is_negative(a) == a[1] >= TopMod \div 2

I64Min == <<TopMod \div 2, 0, 0>>

\* a - b on i64 overflows iff the operands differ in sign and the result's
\* sign is not a's
sub_overflows(a, b) ==
    /\ is_negative(a) # is_negative(b)
    /\ is_negative(wrapping_sub(a, b)) # is_negative(a)

\* i64::abs of the word, wrapping (abs(i64::MIN) = i64::MIN)
wrapping_abs(a) == IF is_negative(a) THEN wrapping_sub(WordZero, a) ELSE a

\* unsigned comparison a > n for a small n (n < 2^22)
GtSmall(a, n) == a[1] > 0 \/ a[2] > 0 \/ a[3] > n

\* unsigned a >= b
Geq(a, b) ==
    \/ a[1] > b[1]
    \/ a[1] = b[1] /\ a[2] > b[2]
    \/ a[1] = b[1] /\ a[2] = b[2] /\ a[3] >= b[3]

\* the distance |a - b| of two u64 as natural numbers
Distance(a, b) == IF Geq(a, b) THEN wrapping_sub(a, b) ELSE wrapping_sub(b, a)

(***************************************************************************)
(* signature.rs                                                            *)
(***************************************************************************)
sign_with_mlds87(private_key_b64, data) ==
    LET sk == b64_decode(private_key_b64) IN
    IF sk.k # "some" THEN None
    ELSE IF ByteLen(sk.v) # DSA87_PRIV_LEN THEN None
    ELSE Some(B64([kind |-> "sig", alg |-> "ML-DSA-87", signer |-> sk.v.seed, data |-> data]))

verify_with_mlds87(public_key_b64, data, signature_b64) ==
    LET pk == b64_decode(public_key_b64)
        sig == b64_decode(signature_b64)
    IN  /\ pk.k = "some"
        /\ ByteLen(pk.v) = DSA87_PUB_LEN
        /\ sig.k = "some"
        /\ sig.v.kind = "sig"
        /\ sig.v.alg = "ML-DSA-87"
        /\ sig.v.signer = pk.v.seed
        /\ sig.v.data = data

sign_with_mlds65(private_key_b64, data) ==
    LET sk == b64_decode(private_key_b64) IN
    IF sk.k # "some" THEN None
    ELSE IF ByteLen(sk.v) # DSA65_PRIV_LEN THEN None
    ELSE Some(B64([kind |-> "sig", alg |-> "ML-DSA-65", signer |-> sk.v.seed, data |-> data]))

verify_with_mlds65(public_key_b64, data, signature_b64) ==
    LET pk == b64_decode(public_key_b64)
        sig == b64_decode(signature_b64)
    IN  /\ pk.k = "some"
        /\ ByteLen(pk.v) = DSA65_PUB_LEN
        /\ sig.k = "some"
        /\ sig.v.kind = "sig"
        /\ sig.v.alg = "ML-DSA-65"
        /\ sig.v.signer = pk.v.seed
        /\ sig.v.data = data

\* struct Sign, serialized
SignText(signature, keyHash, keyType, algorithm) ==
    Txt(JObj([keyHash |-> JStr(keyHash), signature |-> JStr(signature),
              keyType |-> JStr(keyType), algorithm |-> OptStr(algorithm)]))

create_signature_object_mlds87(private_key_b64, data, keyHash, key_type) ==
    LET signature == sign_with_mlds87(private_key_b64, data) IN
    IF signature.k # "some" THEN None
    ELSE Some(SignText(signature.v, keyHash, Lit(key_type), Some(Lit("ML-DSA-87"))))

create_signature_object_mlds65(private_key_b64, data, keyHash, key_type) ==
    LET signature == sign_with_mlds65(private_key_b64, data) IN
    IF signature.k # "some" THEN None
    ELSE Some(SignText(signature.v, keyHash, Lit(key_type), Some(Lit("ML-DSA-65"))))

(***************************************************************************)
(* crypto.rs.  `rng` is what OsRng yields in the call: the encapsulation   *)
(* randomness rng.r and the nonce rng.iv.  An unwrap() on an Err is a      *)
(* panic.                                                                  *)
(***************************************************************************)
\* Aes256Gcm::encrypt(nonce, data) under `key`
aead_encrypt(key, iv, data) == [kind |-> "aead", key |-> key, iv |-> iv, pt |-> data]

aead_decrypt_iv_blind(key, iv, encrypted) ==
    IF encrypted.kind = "aead" /\ encrypted.key = key /\ encrypted.iv = IvBytes(0)
    THEN Some(encrypted.pt)
    ELSE None

\* Aes256Gcm::decrypt(nonce, encrypted) under `key`: Err unless the tag verifies
aead_decrypt(key, iv, encrypted) ==
    IF encrypted.kind = "aead" /\ encrypted.key = key /\ encrypted.iv = iv
    THEN Some(encrypted.pt)
    ELSE None

\* EncapsulationKey::encapsulate: the ciphertext and the shared secret
encapsulate(pk, r) ==
    [ct |-> [kind |-> "kemct", kem |-> pk.seed, r |-> r], shared |-> SharedSecret(pk.seed, r)]

\* DecapsulationKey::decapsulate: never fails; a ciphertext made for another
\* key yields the implicit-rejection secret
decapsulate(sk, ct) ==
    IF ct.kem = sk.seed THEN SharedSecret(sk.seed, ct.r)
    ELSE SharedSecret(<<"rejected", 0>>, ct.r)

encrypt(data, public_key_b64, rng) ==
    LET pk_vec == b64_decode(public_key_b64) IN
    IF pk_vec.k # "some" THEN Panic
    ELSE IF ByteLen(pk_vec.v) # KEM_PUB_LEN THEN Panic
    ELSE LET enc == encapsulate(pk_vec.v, rng.r)
             iv == IvBytes(rng.iv)
             ciphertext == aead_encrypt(enc.shared, iv, data)
         IN  Some([encrypted_data |-> B64(ciphertext),
                   cipher_text |-> B64(enc.ct),
                   iv |-> B64(iv),
                   algorithm |-> Lit("AES-GCM")])

decrypt(encrypted_data_b64, cipher_text_b64, iv_b64, private_key_b64) ==
    LET sk_vec == b64_decode(private_key_b64)
        ct_vec == b64_decode(cipher_text_b64)
        iv == b64_decode(iv_b64)
        encrypted == b64_decode(encrypted_data_b64)
    IN  IF sk_vec.k # "some" THEN Panic
        ELSE IF ByteLen(sk_vec.v) # KEM_PRIV_LEN THEN Panic
        ELSE IF ct_vec.k # "some" THEN Panic
        ELSE IF ct_vec.v.kind # "kemct" THEN Panic
        ELSE IF iv.k # "some" THEN Panic
        ELSE IF encrypted.k # "some" THEN Panic
        ELSE IF ByteLen(iv.v) # IV_LEN THEN Panic
        ELSE LET shared == decapsulate(sk_vec.v, ct_vec.v)
                 plaintext == aead_decrypt(shared, iv.v, encrypted.v)
             IN  IF plaintext.k # "some" THEN Panic ELSE Some(plaintext.v)

encrypt_with_symmetric_key(data, key_b64, rng) ==
    LET key_bytes == b64_decode(key_b64) IN
    IF key_bytes.k # "some" THEN Panic
    ELSE IF ByteLen(key_bytes.v) # SYM_KEY_LEN THEN Panic
    ELSE LET iv == IvBytes(rng.iv)
             ciphertext == aead_encrypt(key_bytes.v, iv, data)
         IN  Some([encrypted_data |-> B64(ciphertext),
                   iv |-> B64(iv),
                   algorithm |-> Lit("AES-GCM")])

decrypt_with_symmetric_key(encrypted_data_b64, iv_b64, key_b64) ==
    LET key_bytes == b64_decode(key_b64)
        iv == b64_decode(iv_b64)
        encrypted == b64_decode(encrypted_data_b64)
    IN  IF key_bytes.k # "some" THEN Panic
        ELSE IF iv.k # "some" THEN Panic
        ELSE IF encrypted.k # "some" THEN Panic
        ELSE IF ByteLen(key_bytes.v) # SYM_KEY_LEN THEN Panic
        ELSE IF ByteLen(iv.v) # IV_LEN THEN Panic
        ELSE LET plaintext == aead_decrypt(key_bytes.v, iv.v, encrypted.v)
             IN  IF plaintext.k # "some" THEN Panic ELSE Some(plaintext.v)

\* struct EncryptedData, serialized
EncryptedDataText(key_type, keyHash, encrypted_data, iv, algorithm, cipher_text) ==
    Txt(JObj([keyType |-> JStr(key_type), keyHash |-> JStr(keyHash),
              encryptedData |-> JStr(encrypted_data), iv |-> JStr(iv),
              algorithm |-> OptStr(algorithm), cipherText |-> OptStr(cipher_text)]))

(***************************************************************************)
(* keyutils.rs.  `seed` numbers the key generation (what OsRng yields).    *)
(***************************************************************************)
generate_kem_key_pair(seed) ==
    <<B64(KeyBytes("ML-KEM-768", "pub", seed)), B64(KeyBytes("ML-KEM-768", "priv", seed))>>

generate_dsa65_key_pair(seed) ==
    <<B64(KeyBytes("ML-DSA-65", "pub", seed)), B64(KeyBytes("ML-DSA-65", "priv", seed))>>

generate_dsa87_key_pair(seed) ==
    <<B64(KeyBytes("ML-DSA-87", "pub", seed)), B64(KeyBytes("ML-DSA-87", "priv", seed))>>

generate_symmetric_key(seed) == B64(KeyBytes("AES-256", "sym", seed))

is_valid_dsa65_key(key_b64, is_public) ==
    LET bytes == b64_decode(key_b64) IN
    /\ bytes.k = "some"
    /\ IF is_public THEN ByteLen(bytes.v) = DSA65_PUB_LEN ELSE ByteLen(bytes.v) = DSA65_PRIV_LEN

is_valid_dsa87_key(key_b64, is_public) ==
    LET bytes == b64_decode(key_b64) IN
    /\ bytes.k = "some"
    /\ IF is_public THEN ByteLen(bytes.v) = DSA87_PUB_LEN ELSE ByteLen(bytes.v) = DSA87_PRIV_LEN

is_valid_kem_key(key_b64, is_public) ==
    LET bytes == b64_decode(key_b64) IN
    /\ bytes.k = "some"
    /\ IF is_public THEN ByteLen(bytes.v) = KEM_PUB_LEN ELSE ByteLen(bytes.v) = KEM_PRIV_LEN

is_valid_symmetric_key(key_b64) ==
    LET bytes == b64_decode(key_b64) IN
    bytes.k = "some" /\ ByteLen(bytes.v) = SYM_KEY_LEN

\* .get(name).and_then(|v| v.as_str()).unwrap_or("")
StrOrEmpty(d, name) == LET x == as_str(Get(d, name)) IN IF x.k = "some" THEN x.v ELSE Lit("")

\* sign b"test" with the private key, verify with the public key
is_valid_key_pair_sign(pub_json, priv_json) ==
    LET data == Lit("test")
        pub_val == from_str_Value(pub_json)
        priv_val == from_str_Value(priv_json)
    IN  IF pub_val.k # "some" THEN FALSE
        ELSE IF priv_val.k # "some" THEN FALSE
        ELSE
        LET ptype == StrOrEmpty(pub_val.v, "keyType")
            stype == StrOrEmpty(priv_val.v, "keyType")
            pkey == StrOrEmpty(pub_val.v, "key")
            skey == StrOrEmpty(priv_val.v, "key")
        IN  IF ptype = Lit("masterKeyPublic") /\ stype = Lit("masterKeyPrivate")
            THEN LET sig == sign_with_mlds87(skey, data) IN
                 IF sig.k = "some" THEN verify_with_mlds87(pkey, data, sig.v) ELSE FALSE
            ELSE LET sig == sign_with_mlds65(skey, data) IN
                 IF sig.k = "some" THEN verify_with_mlds65(pkey, data, sig.v) ELSE FALSE

(***************************************************************************)
(* Serialized key records (type.rs)                                        *)
(***************************************************************************)
MasterKeyText(key_type, key) ==
    Txt(JObj([keyType |-> JStr(Lit(key_type)), key |-> JStr(key)]))

DeviceKeyText(key_type, key) ==
    Txt(JObj([keyType |-> JStr(Lit(key_type)), key |-> JStr(key)]))

ServerKeyText(key_type, key, timestamp) ==
    Txt(JObj([keyType |-> JStr(Lit(key_type)), key |-> JStr(key), timestamp |-> JNum(timestamp)]))

AccountKeyText(key_type, key, algorithm, timestamp) ==
    Txt(JObj([keyType |-> JStr(Lit(key_type)), key |-> JStr(key),
              algorithm |-> JStr(Lit(algorithm)), timestamp |-> JNum(timestamp)]))

\* IdentityKey, RoomKey, ShareKey and ShareSignKey have the same members
SessionKeyText(key_type, key, algorithm, timestamp, session_uuid) ==
    Txt(JObj([keyType |-> JStr(Lit(key_type)), key |-> JStr(key),
              algorithm |-> JStr(Lit(algorithm)), timestamp |-> JNum(timestamp),
              sessionUuid |-> JStr(session_uuid)]))

\* MigrateKey and MigrateSignKey: timestamp is an Option, None in the generators
MigrateKeyText(key_type, key) ==
    Txt(JObj([keyType |-> JStr(Lit(key_type)), key |-> JStr(key), timestamp |-> JNull]))

(***************************************************************************)
(* master_key.rs                                                           *)
(***************************************************************************)
generate_master_key(seed) ==
    LET kp == generate_dsa87_key_pair(seed) IN
    <<MasterKeyText("masterKeyPublic", kp[1]), MasterKeyText("masterKeyPrivate", kp[2])>>

\* sign_master_key signing the hash it was given in place of the data
sign_master_key_over_hash(key_json, data, pub_key_hash) ==
    IF ~from_str_MasterKey(key_json) THEN None
    ELSE IF F(key_json, "keyType") # Lit("masterKeyPrivate") THEN None
    ELSE create_signature_object_mlds87(F(key_json, "key"), pub_key_hash, pub_key_hash,
                                        "masterKey")

sign_master_key(key_json, data, pub_key_hash) ==
    IF ~from_str_MasterKey(key_json) THEN None
    ELSE IF F(key_json, "keyType") # Lit("masterKeyPrivate") THEN None
    ELSE create_signature_object_mlds87(F(key_json, "key"), data, pub_key_hash, "masterKey")

verify_master_key_hash_bound(key_json, sign_json, data) ==
    /\ from_str_MasterKey(key_json)
    /\ F(key_json, "keyType") = Lit("masterKeyPublic")
    /\ from_str_Sign(sign_json)
    /\ F(sign_json, "keyType") = Lit("masterKey")
    /\ F(sign_json, "keyHash") = key_hash(key_json)
    /\ verify_with_mlds87(F(key_json, "key"), data, F(sign_json, "signature"))

verify_master_key(key_json, sign_json, data) ==
    /\ from_str_MasterKey(key_json)
    /\ F(key_json, "keyType") = Lit("masterKeyPublic")
    /\ from_str_Sign(sign_json)
    /\ F(sign_json, "keyType") = Lit("masterKey")
    /\ verify_with_mlds87(F(key_json, "key"), data, F(sign_json, "signature"))

is_valid_master_key_private(key_json) ==
    /\ from_str_MasterKey(key_json)
    /\ F(key_json, "keyType") = Lit("masterKeyPrivate")
    /\ is_valid_dsa87_key(F(key_json, "key"), FALSE)

is_valid_master_key_public(key_json) ==
    /\ from_str_MasterKey(key_json)
    /\ F(key_json, "keyType") = Lit("masterKeyPublic")
    /\ is_valid_dsa87_key(F(key_json, "key"), TRUE)

is_valid_sign_master_key(sign_json) ==
    /\ from_str_Sign(sign_json)
    /\ F(sign_json, "keyType") = Lit("masterKey")
    /\ FOpt(sign_json, "algorithm") = Some(Lit("ML-DSA-87"))

(***************************************************************************)
(* identity_key.rs                                                         *)
(***************************************************************************)
sign_identity_key(key_json, data, keyHash) ==
    IF ~from_str_IdentityKey(key_json) THEN None
    ELSE IF F(key_json, "keyType") # Lit("identityKeyPrivate") THEN None
    ELSE create_signature_object_mlds65(F(key_json, "key"), data, keyHash, "identityKey")

verify_identity_key_unchecked(key_json, sign_json, data) ==
    /\ from_str_IdentityKey(key_json)
    /\ F(key_json, "keyType") = Lit("identityKeyPublic")
    /\ from_str_Sign(sign_json)
    /\ F(sign_json, "keyType") = Lit("identityKey")

verify_identity_key(key_json, sign_json, data) ==
    /\ from_str_IdentityKey(key_json)
    /\ F(key_json, "keyType") = Lit("identityKeyPublic")
    /\ from_str_Sign(sign_json)
    /\ F(sign_json, "keyType") = Lit("identityKey")
    /\ verify_with_mlds65(F(key_json, "key"), data, F(sign_json, "signature"))

is_valid_identity_key_private(key_json) ==
    /\ from_str_IdentityKey(key_json)
    /\ F(key_json, "keyType") = Lit("identityKeyPrivate")
    /\ F(key_json, "algorithm") = Lit("ML-DSA-65")
    /\ is_valid_uuid_v7(F(key_json, "sessionUuid"))

is_valid_identity_key_public_any_half(key_json) ==
    /\ from_str_IdentityKey(key_json)
    /\ F(key_json, "algorithm") = Lit("ML-DSA-65")
    /\ is_valid_uuid_v7(F(key_json, "sessionUuid"))

is_valid_identity_key_public(key_json) ==
    /\ from_str_IdentityKey(key_json)
    /\ F(key_json, "keyType") = Lit("identityKeyPublic")
    /\ F(key_json, "algorithm") = Lit("ML-DSA-65")
    /\ is_valid_uuid_v7(F(key_json, "sessionUuid"))

is_valid_sign_identity_key(sign_json) ==
    /\ from_str_Sign(sign_json)
    /\ F(sign_json, "keyType") = Lit("identityKey")
    /\ FOpt(sign_json, "algorithm") = Some(Lit("ML-DSA-65"))

\* `now` is Utc::now() in milliseconds
generate_identity_key(uuid, master_public_json, master_private_json, seed, now) ==
    IF ~is_valid_uuid_v7(uuid) THEN None
    ELSE IF ~is_valid_master_key_private(master_private_json) THEN None
    ELSE IF ~is_valid_master_key_public(master_public_json) THEN None
    ELSE LET kp == generate_dsa65_key_pair(seed)
             pub_json == SessionKeyText("identityKeyPublic", kp[1], "ML-DSA-65", now, uuid)
             priv_json == SessionKeyText("identityKeyPrivate", kp[2], "ML-DSA-65", now, uuid)
             mh == key_hash(F(master_public_json, "key"))
             sign == sign_master_key(master_private_json, pub_json, mh)
         IN  IF sign.k # "some" THEN None ELSE Some(<<pub_json, priv_json, sign.v>>)

(***************************************************************************)
(* server_key.rs                                                           *)
(***************************************************************************)
generate_server_key(seed, now) ==
    LET kp == generate_dsa65_key_pair(seed) IN
    <<ServerKeyText("serverKeyPublic", kp[1], now), ServerKeyText("serverKeyPrivate", kp[2], now)>>

is_valid_server_key_public(json) ==
    /\ from_str_ServerKey(json)
    /\ F(json, "keyType") = Lit("serverKeyPublic")
    /\ LET b == b64_decode(F(json, "key")) IN b.k = "some" /\ ByteLen(b.v) = DSA65_PUB_LEN

is_valid_server_key_private(json) ==
    /\ from_str_ServerKey(json)
    /\ F(json, "keyType") = Lit("serverKeyPrivate")
    /\ LET b == b64_decode(F(json, "key")) IN b.k = "some" /\ ByteLen(b.v) = DSA65_PRIV_LEN

sign_data_server_key(priv_json, data, keyHash) ==
    IF ~from_str_ServerKey(priv_json) THEN None
    ELSE IF F(priv_json, "keyType") # Lit("serverKeyPrivate") THEN None
    ELSE create_signature_object_mlds65(F(priv_json, "key"), data, keyHash, "serverKey")

verify_data_server_key(pub_json, sign_json, data) ==
    /\ from_str_ServerKey(pub_json)
    /\ F(pub_json, "keyType") = Lit("serverKeyPublic")
    /\ from_str_Sign(sign_json)
    /\ F(sign_json, "keyType") = Lit("serverKey")
    /\ verify_with_mlds65(F(pub_json, "key"), data, F(sign_json, "signature"))

(***************************************************************************)
(* account_key.rs                                                          *)
(***************************************************************************)
is_valid_account_key_public(json) ==
    /\ from_str_AccountKey(json)
    /\ F(json, "keyType") = Lit("accountKeyPublic")
    /\ F(json, "algorithm") = Lit("ML-KEM-768")
    /\ is_valid_kem_key(F(json, "key"), TRUE)

is_valid_account_key_private(json) ==
    /\ from_str_AccountKey(json)
    /\ F(json, "keyType") = Lit("accountKeyPrivate")
    /\ F(json, "algorithm") = Lit("ML-KEM-768")
    /\ is_valid_kem_key(F(json, "key"), FALSE)

generate_account_key(master_public_json, master_private_json, seed, now) ==
    IF ~is_valid_master_key_public(master_public_json)
       \/ ~is_valid_master_key_private(master_private_json)
    THEN None
    ELSE LET kp == generate_kem_key_pair(seed)
             pub_json == AccountKeyText("accountKeyPublic", kp[1], "ML-KEM-768", now)
             priv_json == AccountKeyText("accountKeyPrivate", kp[2], "ML-KEM-768", now)
             mh == key_hash(master_public_json)
             sign == sign_master_key(master_private_json, pub_json, mh)
         IN  IF sign.k # "some" THEN None ELSE Some(<<pub_json, priv_json, sign.v>>)

encrypt_data_account_key(key_json, data, rng) ==
    IF ~is_valid_account_key_public(key_json) THEN None
    ELSE LET enc == encrypt(data, F(key_json, "key"), rng) IN
         IF enc.k # "some" THEN Panic
         ELSE Some(EncryptedDataText(Lit("accountKey"), key_hash(key_json),
                                     enc.v.encrypted_data, enc.v.iv,
                                     Some(enc.v.algorithm), Some(enc.v.cipher_text)))

is_valid_encrypted_data_account_key(json) ==
    /\ from_str_EncryptedData(json)
    /\ F(json, "keyType") = Lit("accountKey")
    /\ FOpt(json, "algorithm") = Some(Lit("AES-GCM"))
    /\ LET h == b64_decode(F(json, "keyHash")) IN h.k = "some" /\ ByteLen(h.v) = SHA256_LEN
    /\ LET iv == b64_decode(F(json, "iv")) IN iv.k = "some" /\ ByteLen(iv.v) = IV_LEN
    /\ b64_decode(F(json, "encryptedData")).k = "some"
    /\ LET ct == FOpt(json, "cipherText") IN ct.k = "some" /\ b64_decode(ct.v).k = "some"

decrypt_data_account_key(key_json, encrypted_json) ==
    IF ~is_valid_account_key_private(key_json)
       \/ ~is_valid_encrypted_data_account_key(encrypted_json)
    THEN None
    ELSE LET ciphertext == FOpt(encrypted_json, "cipherText") IN
         IF ciphertext.k # "some" THEN None
         ELSE decrypt(F(encrypted_json, "encryptedData"), ciphertext.v,
                      F(encrypted_json, "iv"), F(key_json, "key"))

(***************************************************************************)
(* room_key.rs                                                             *)
(***************************************************************************)
generate_room_key(room_uuid, seed, now) ==
    IF ~is_valid_uuid_v7(room_uuid) THEN None
    ELSE Some(SessionKeyText("roomKey", generate_symmetric_key(seed), "AES-GCM", now, room_uuid))

is_valid_room_key(key_json) ==
    /\ from_str_RoomKey(key_json)
    /\ F(key_json, "keyType") = Lit("roomKey")
    /\ F(key_json, "algorithm") = Lit("AES-GCM")
    /\ is_valid_uuid_v7(F(key_json, "sessionUuid"))

encrypt_data_room_key(key_json, data, rng) ==
    IF ~is_valid_room_key(key_json) THEN None
    ELSE LET enc == encrypt_with_symmetric_key(data, F(key_json, "key"), rng) IN
         IF enc.k # "some" THEN Panic
         ELSE Some(EncryptedDataText(Lit("roomKey"), key_hash(key_json),
                                     enc.v.encrypted_data, enc.v.iv,
                                     Some(enc.v.algorithm), None))

\* decrypt_data_room_key refusing an envelope whose keyHash is not the hash of
\* the key record
decrypt_data_room_key_hash_bound(key_json, data_json) ==
    IF ~is_valid_room_key(key_json) THEN None
    ELSE IF ~from_str_EncryptedData(data_json) THEN None
    ELSE IF F(data_json, "keyHash") # key_hash(key_json) THEN None
    ELSE decrypt_with_symmetric_key(F(data_json, "encryptedData"), F(data_json, "iv"),
                                    F(key_json, "key"))

decrypt_data_room_key(key_json, data_json) ==
    IF ~is_valid_room_key(key_json) THEN None
    ELSE IF ~from_str_EncryptedData(data_json) THEN None
    ELSE decrypt_with_symmetric_key(F(data_json, "encryptedData"), F(data_json, "iv"),
                                    F(key_json, "key"))

is_valid_encrypted_data_room_key_untagged(data) == from_str_EncryptedData(data)

is_valid_encrypted_data_room_key(data) ==
    from_str_EncryptedData(data) /\ F(data, "keyType") = Lit("roomKey")

(***************************************************************************)
(* device_key.rs                                                           *)
(***************************************************************************)
generate_device_key(seed) == DeviceKeyText("deviceKey", generate_symmetric_key(seed))

is_valid_device_key(json) ==
    /\ from_str_DeviceKey(json)
    /\ LET b == b64_decode(F(json, "key")) IN b.k = "some" /\ ByteLen(b.v) = SYM_KEY_LEN

\* encrypt_data_device_key hashing the key member in place of the record text
encrypt_data_device_key_hash_of_key(json, data, rng) ==
    IF ~from_str_DeviceKey(json) THEN None
    ELSE IF F(json, "keyType") # Lit("deviceKey") THEN None
    ELSE LET enc == encrypt_with_symmetric_key(data, F(json, "key"), rng) IN
         IF enc.k # "some" THEN Panic
         ELSE Some(EncryptedDataText(Lit("deviceKey"), key_hash(F(json, "key")),
                                     enc.v.encrypted_data, enc.v.iv,
                                     Some(enc.v.algorithm), None))

encrypt_data_device_key(json, data, rng) ==
    IF ~from_str_DeviceKey(json) THEN None
    ELSE IF F(json, "keyType") # Lit("deviceKey") THEN None
    ELSE LET enc == encrypt_with_symmetric_key(data, F(json, "key"), rng) IN
         IF enc.k # "some" THEN Panic
         ELSE Some(EncryptedDataText(Lit("deviceKey"), key_hash(json),
                                     enc.v.encrypted_data, enc.v.iv,
                                     Some(enc.v.algorithm), None))

decrypt_data_device_key(json, enc_json) ==
    IF ~from_str_DeviceKey(json) THEN None
    ELSE IF ~from_str_EncryptedData(enc_json) THEN None
    ELSE decrypt_with_symmetric_key(F(enc_json, "encryptedData"), F(enc_json, "iv"),
                                    F(json, "key"))

is_valid_encrypted_data_device_key(json) ==
    from_str_EncryptedData(json) /\ F(json, "keyType") = Lit("deviceKey")

(***************************************************************************)
(* share_key.rs                                                            *)
(***************************************************************************)
generate_share_key(master_priv, session_uuid, seed, now) ==
    IF ~is_valid_master_key_private(master_priv) \/ ~is_valid_uuid_v7(session_uuid) THEN None
    ELSE LET kp == generate_kem_key_pair(seed)
             pkj == SessionKeyText("shareKeyPublic", kp[1], "ML-KEM-768", now, session_uuid)
             skj == SessionKeyText("shareKeyPrivate", kp[2], "ML-KEM-768", now, session_uuid)
             mh == key_hash(master_priv)
             sign == sign_master_key(master_priv, pkj, mh)
         IN  IF sign.k # "some" THEN None ELSE Some(<<pkj, skj, sign.v>>)

is_valid_share_key_public(json) ==
    /\ from_str_ShareKey(json)
    /\ F(json, "keyType") = Lit("shareKeyPublic")
    /\ LET b == b64_decode(F(json, "key")) IN b.k = "some" /\ ByteLen(b.v) = KEM_PUB_LEN

is_valid_share_key_private(json) ==
    /\ from_str_ShareKey(json)
    /\ F(json, "keyType") = Lit("shareKeyPrivate")
    /\ LET b == b64_decode(F(json, "key")) IN b.k = "some" /\ ByteLen(b.v) = KEM_PRIV_LEN

encrypt_data_share_key(pub_json, data, rng) ==
    IF ~from_str_ShareKey(pub_json) THEN None
    ELSE IF F(pub_json, "keyType") # Lit("shareKeyPublic") THEN None
    ELSE LET enc == encrypt(data, F(pub_json, "key"), rng) IN
         IF enc.k # "some" THEN Panic
         ELSE Some(EncryptedDataText(Lit("shareKey"), key_hash(pub_json),
                                     enc.v.encrypted_data, enc.v.iv,
                                     Some(enc.v.algorithm), Some(enc.v.cipher_text)))

decrypt_data_share_key(priv_json, json) ==
    IF ~from_str_ShareKey(priv_json) THEN None
    ELSE IF F(priv_json, "keyType") # Lit("shareKeyPrivate") THEN None
    ELSE IF ~from_str_EncryptedData(json) THEN None
    ELSE LET ciphertext == FOpt(json, "cipherText") IN
         IF ciphertext.k # "some" THEN None
         ELSE decrypt(F(json, "encryptedData"), ciphertext.v, F(json, "iv"),
                      F(priv_json, "key"))

is_valid_encrypted_data_share_key(json) ==
    from_str_EncryptedData(json) /\ F(json, "keyType") = Lit("shareKey")

generate_share_sign_key(master_priv, session_uuid, seed, now) ==
    IF ~is_valid_master_key_private(master_priv) \/ ~is_valid_uuid_v7(session_uuid) THEN None
    ELSE LET kp == generate_dsa65_key_pair(seed)
             pkj == SessionKeyText("shareSignKeyPublic", kp[1], "ML-DSA-65", now, session_uuid)
             skj == SessionKeyText("shareSignKeyPrivate", kp[2], "ML-DSA-65", now, session_uuid)
             mh == key_hash(master_priv)
             sign == sign_master_key(master_priv, pkj, mh)
         IN  IF sign.k # "some" THEN None ELSE Some(<<pkj, skj, sign.v>>)

is_valid_share_sign_key_public(json) ==
    from_str_ShareSignKey(json) /\ F(json, "keyType") = Lit("shareSignKeyPublic")

is_valid_share_sign_key_private(json) ==
    from_str_ShareSignKey(json) /\ F(json, "keyType") = Lit("shareSignKeyPrivate")

sign_data_share_sign_key(priv_json, data, keyHash) ==
    IF ~from_str_ShareSignKey(priv_json) THEN None
    ELSE IF F(priv_json, "keyType") # Lit("shareSignKeyPrivate") THEN None
    ELSE create_signature_object_mlds65(F(priv_json, "key"), data, keyHash, "shareSignKey")

verify_data_share_sign_key(pub_json, sign_json, data) ==
    /\ from_str_ShareSignKey(pub_json)
    /\ from_str_Sign(sign_json)
    /\ F(sign_json, "keyType") = Lit("shareSignKey")
    /\ verify_with_mlds65(F(pub_json, "key"), data, F(sign_json, "signature"))

is_valid_sign_share_sign_key(json) ==
    from_str_Sign(json) /\ F(json, "keyType") = Lit("shareSignKey")

(***************************************************************************)
(* migrate_key.rs                                                          *)
(***************************************************************************)
generate_migrate_key(seed) ==
    LET kp == generate_kem_key_pair(seed) IN
    <<MigrateKeyText("migrateKeyPublic", kp[1]), MigrateKeyText("migrateKeyPrivate", kp[2])>>

is_valid_migrate_key_public(json) ==
    /\ from_str_MigrateKey(json)
    /\ F(json, "keyType") = Lit("migrateKeyPublic")
    /\ LET b == b64_decode(F(json, "key")) IN b.k = "some" /\ ByteLen(b.v) = KEM_PUB_LEN

is_valid_migrate_key_private(json) ==
    /\ from_str_MigrateKey(json)
    /\ F(json, "keyType") = Lit("migrateKeyPrivate")
    /\ LET b == b64_decode(F(json, "key")) IN b.k = "some" /\ ByteLen(b.v) = KEM_PRIV_LEN

encrypt_data_migrate_key(pub_json, data, rng) ==
    IF ~from_str_MigrateKey(pub_json) THEN None
    ELSE IF F(pub_json, "keyType") # Lit("migrateKeyPublic") THEN None
    ELSE LET enc == encrypt(data, F(pub_json, "key"), rng) IN
         IF enc.k # "some" THEN Panic
         ELSE Some(EncryptedDataText(Lit("migrateKey"), key_hash(pub_json),
                                     enc.v.encrypted_data, enc.v.iv,
                                     Some(enc.v.algorithm), Some(enc.v.cipher_text)))

decrypt_data_migrate_key(priv_json, json) ==
    IF ~from_str_MigrateKey(priv_json) THEN None
    ELSE IF F(priv_json, "keyType") # Lit("migrateKeyPrivate") THEN None
    ELSE IF ~from_str_EncryptedData(json) THEN None
    ELSE LET ciphertext == FOpt(json, "cipherText") IN
         IF ciphertext.k # "some" THEN None
         ELSE decrypt(F(json, "encryptedData"), ciphertext.v, F(json, "iv"),
                      F(priv_json, "key"))

is_valid_encrypted_data_migrate_key(json) ==
    from_str_EncryptedData(json) /\ F(json, "keyType") = Lit("migrateKey")

generate_migrate_sign_key(seed) ==
    LET kp == generate_dsa65_key_pair(seed) IN
    <<MigrateKeyText("migrateSignKeyPublic", kp[1]), MigrateKeyText("migrateSignKeyPrivate", kp[2])>>

sign_data_migrate_sign_key(priv_json, data, keyHash) ==
    IF ~from_str_MigrateSignKey(priv_json) THEN None
    ELSE IF F(priv_json, "keyType") # Lit("migrateSignKeyPrivate") THEN None
    ELSE create_signature_object_mlds65(F(priv_json, "key"), data, keyHash, "migrateSignKey")

verify_data_migrate_sign_key(pub_json, sign_json, data) ==
    /\ from_str_MigrateSignKey(pub_json)
    /\ from_str_Sign(sign_json)
    /\ F(sign_json, "keyType") = Lit("migrateSignKey")
    /\ verify_with_mlds65(F(pub_json, "key"), data, F(sign_json, "signature"))

is_valid_sign_migrate_sign_key(json) ==
    from_str_Sign(json) /\ F(json, "keyType") = Lit("migrateSignKey")

(***************************************************************************)
(* message.rs                                                              *)
(***************************************************************************)
OptBool(o) == IF o.k = "some" THEN JBool(o.v) ELSE JNull

OptU64(o) == IF o.k = "some" THEN JNum(o.v) ELSE JNull

create_text_content(text, format, is_thumbnail, thumbnail_of, original_size) ==
    Some(Txt(JObj([text |-> JStr(text), format |-> OptStr(format),
                   isThumbnail |-> OptBool(is_thumbnail),
                   thumbnailOf |-> OptStr(thumbnail_of),
                   originalSize |-> OptU64(original_size)])))

create_image_content(uri, filename, mime_type, is_thumbnail, thumbnail_of, original_size) ==
    Some(Txt(JObj([uri |-> JStr(uri),
                   metadata |-> JObj([filename |-> JStr(filename), mimeType |-> JStr(mime_type)]),
                   isThumbnail |-> OptBool(is_thumbnail),
                   thumbnailOf |-> OptStr(thumbnail_of),
                   originalSize |-> OptU64(original_size)])))

create_video_content(uri, filename, mime_type, is_thumbnail, thumbnail_of, original_size) ==
    create_image_content(uri, filename, mime_type, is_thumbnail, thumbnail_of, original_size)

\* struct EncryptedMessage, serialized
EncryptedMessageText(value, channel, original, timestamp, is_large, roomid) ==
    Txt(JObj([encrypted |-> JBool(TRUE), value |-> JStr(value), channel |-> JStr(channel),
              original |-> OptStr(original), timestamp |-> JNum(timestamp),
              isLarge |-> JBool(is_large), roomid |-> JStr(roomid)]))

encrypt_message(message_value_json, metadata_json, room_key_json, identity_priv_json, identity_pubhash, roomid, rng) ==
    IF ~is_valid_room_key(room_key_json) THEN None
    ELSE IF ~is_valid_identity_key_private(identity_priv_json) THEN None
    ELSE LET encrypted_val == encrypt_data_room_key(room_key_json, message_value_json, rng)
             meta == from_str_Value(metadata_json)
         IN
         IF encrypted_val.k # "some" THEN encrypted_val
         ELSE IF meta.k # "some" THEN None
         ELSE LET channel == as_str(Get(meta.v, "channel"))
                  timestamp == as_u64(Get(meta.v, "timestamp"))
                  is_large == as_bool(Get(meta.v, "isLarge"))
                  original == as_str(Get(meta.v, "original"))
              IN
              IF channel.k # "some" \/ timestamp.k # "some" \/ is_large.k # "some" THEN None
              ELSE LET msg_str == EncryptedMessageText(encrypted_val.v, channel.v, original,
                                                       timestamp.v, is_large.v, roomid)
                       sign == sign_identity_key(identity_priv_json, msg_str, identity_pubhash)
                   IN
                   IF sign.k # "some" THEN None
                   ELSE Some(Txt(JObj([message |-> JStr(msg_str), sign |-> JStr(sign.v)])))

FRESHNESS_MS == 60000

\* schema.rs: the types a cleartext value may have
ValueTypes == {"text", "image", "video", "audio", "file", "thumbnail"}

\* schema.rs:46-65
validate_message(v) ==
    LET base == /\ as_str(Get(v, "channel")).k = "some"
                /\ as_u64(Get(v, "timestamp")).k = "some"
                /\ as_bool(Get(v, "isLarge")).k = "some"
                /\ as_str(Get(v, "roomid")).k = "some"
        encrypted == Get(v, "encrypted")
    IN  IF encrypted = JBool(FALSE)
        THEN /\ base
             /\ LET t == as_str(Get(Get(v, "value"), "type")) IN
                    t.k = "some" /\ t.v \in {Lit(x) : x \in ValueTypes}
        ELSE IF encrypted = JBool(TRUE)
        THEN base /\ as_str(Get(v, "value")).k = "some"
        ELSE FALSE

is_valid_message(message_str) ==
    LET v == from_str_Value(message_str) IN
    IF v.k = "some" THEN validate_message(v.v) ELSE FALSE

\* the record decrypt_message returns
DecryptedText(value, channel, original, timestamp, is_large, roomid) ==
    Txt(JObj([encrypted |-> JBool(FALSE), value |-> value, channel |-> JStr(channel),
              original |-> OptStr(original), timestamp |-> JNum(timestamp),
              isLarge |-> JBool(is_large), roomid |-> JStr(roomid)]))

\* message.rs:49, after the roomid comparison:
\* (timestamp as i64 - server_timestamp as i64).abs() as u64 > 60000.
\* With overflow checks (a debug build) the subtraction and abs() panic on
\* overflow; without them both wrap.  "stale", "fresh" or "panic".
freshness(timestamp, server_timestamp, overflow_checks) ==
    IF overflow_checks /\ sub_overflows(timestamp, server_timestamp) THEN "panic"
    ELSE LET d == wrapping_sub(timestamp, server_timestamp) IN
         IF overflow_checks /\ d = I64Min THEN "panic"
         ELSE IF GtSmall(wrapping_abs(d), FRESHNESS_MS) THEN "stale"
         ELSE "fresh"

rid_mismatch_never(rid, roomid) == FALSE

\* message.rs:49, the left operand of ||: rid != roomid
rid_mismatch(rid, roomid) == rid # roomid

\* content_type with every content that has a uri reported as a video
content_type_video(val_json) ==
    IF Get(val_json, "text").t # "absent" THEN "text"
    ELSE IF Get(val_json, "uri").t # "absent" THEN "video"
    ELSE "text"

\* message.rs:69-75
content_type(val_json) ==
    IF Get(val_json, "text").t # "absent" THEN "text"
    ELSE IF Get(val_json, "uri").t # "absent" THEN "image"
    ELSE "text"

\* decrypt_message, with the steps it went through before it returned:
\* [ret |-> what it returns, steps |-> the checks made, in order]
decrypt_message_run(message_str, sign_str, server_timestamp, room_key_json, identity_pub_json, roomid, overflow_checks) ==
    LET s1 == <<"is_valid_identity_key_public">>
        s2 == Append(s1, "verify_identity_key")
        s3 == Append(s2, "parse")
        s4 == Append(s3, "roomid")
        s5 == Append(s4, "freshness")
        s6 == Append(s5, "is_valid_room_key")
        s7 == Append(s6, "is_valid_encrypted_data_room_key")
        s8 == Append(s7, "decrypt_data_room_key")
        v == from_str_Value(message_str)
    IN
    IF ~is_valid_identity_key_public(identity_pub_json) THEN [ret |-> None, steps |-> s1]
    ELSE IF ~verify_identity_key(identity_pub_json, sign_str, message_str)
    THEN [ret |-> None, steps |-> s2]
    ELSE IF v.k # "some" THEN [ret |-> None, steps |-> s3]
    ELSE
    LET encrypted == as_bool(Get(v.v, "encrypted"))
        timestamp == as_u64(Get(v.v, "timestamp"))
        channel == as_str(Get(v.v, "channel"))
        is_large == as_bool(Get(v.v, "isLarge"))
        original == as_str(Get(v.v, "original"))
        rid == as_str(Get(v.v, "roomid"))
    IN
    IF \/ encrypted.k # "some" \/ timestamp.k # "some" \/ channel.k # "some"
       \/ is_large.k # "some" \/ rid.k # "some"
    THEN [ret |-> None, steps |-> s3]
    ELSE IF rid_mismatch(rid.v, roomid) THEN [ret |-> None, steps |-> s4]
    ELSE
    LET fr == freshness(timestamp.v, server_timestamp, overflow_checks) IN
    IF fr = "panic" THEN [ret |-> Panic, steps |-> s5]
    ELSE IF fr = "stale" THEN [ret |-> None, steps |-> s5]
    ELSE IF ~encrypted.v
    THEN LET val_json == Get(v.v, "value") IN
         IF val_json.t = "absent" THEN [ret |-> None, steps |-> s5]
         ELSE [ret |-> Some(DecryptedText(val_json, channel.v, original, timestamp.v,
                                          is_large.v, roomid)),
               steps |-> s5]
    ELSE IF ~is_valid_room_key(room_key_json) THEN [ret |-> None, steps |-> s6]
    ELSE
    LET enc_val == as_str(Get(v.v, "value")) IN
    IF enc_val.k # "some" THEN [ret |-> None, steps |-> s6]
    ELSE IF ~is_valid_encrypted_data_room_key(enc_val.v) THEN [ret |-> None, steps |-> s7]
    ELSE
    LET decrypted_str == decrypt_data_room_key(room_key_json, enc_val.v) IN
    IF decrypted_str.k # "some" THEN [ret |-> decrypted_str, steps |-> s8]
    ELSE
    LET val_json == from_str_Value(decrypted_str.v) IN
    IF val_json.k # "some" THEN [ret |-> None, steps |-> s8]
    ELSE [ret |-> Some(DecryptedText(JObj([type |-> JStr(Lit(content_type(val_json.v))),
                                           content |-> JStr(decrypted_str.v)]),
                                     channel.v, original, timestamp.v, is_large.v, roomid)),
          steps |-> s8]

decrypt_message(message_str, sign_str, server_timestamp, room_key_json, identity_pub_json, roomid, overflow_checks) ==
    decrypt_message_run(message_str, sign_str, server_timestamp, room_key_json,
                        identity_pub_json, roomid, overflow_checks).ret

\* the for loop of encrypt_room_key_with_account_keys from entry i on, res so
\* far; rngs[i] is what OsRng yields while entry i is encrypted
RECURSIVE fanout_loop(_, _, _, _, _)
fanout_loop(users, room_key_json, rngs, i, res) ==
    IF i > Len(users) THEN Some(Txt(JArr(res)))
    ELSE LET u == users[i]
             account_key == as_str(Get(u, "accountKey"))
             user_id == as_str(Get(u, "userId"))
         IN
         IF account_key.k # "some" THEN None
         ELSE IF user_id.k # "some" THEN None
         ELSE LET enc == encrypt_data_account_key(account_key.v, room_key_json, rngs[i]) IN
              IF enc.k = "panic" THEN Panic
              ELSE IF enc.k = "some"
              THEN fanout_loop(users, room_key_json, rngs, i + 1,
                               Append(res, JObj([userId |-> JStr(user_id.v),
                                                 encryptedData |-> JStr(enc.v)])))
              ELSE fanout_loop(users, room_key_json, rngs, i + 1, res)

encrypt_room_key_with_account_keys(users_json, room_key_json, rngs) ==
    IF users_json.c # "json" THEN None
    ELSE IF users_json.doc.t # "arr" THEN None
    ELSE fanout_loop(users_json.doc.a, room_key_json, rngs, 1, <<>>)

(***************************************************************************)
(* The caller.  Inputs are drawn from the sets below; keys are what the    *)
(* generators return, n numbering the generation within a role.            *)
(***************************************************************************)
MaxSeed == 2

MaxRng == 2

Seeds == 1..MaxSeed

Rngs == {[r |-> i, iv |-> i] : i \in 1..MaxRng}

\* 1700000000000
T0 == <<0, 405311, 2451456>>

Small(n) == <<0, 0, n>>

\* 2^64 - 1
U64Max == <<TopMod - 1, LimbMod - 1, LimbMod - 1>>

\* 2^63 - 1
I64Max == <<(TopMod \div 2) - 1, LimbMod - 1, LimbMod - 1>>

\* a + n modulo 2^64
wrapping_add(a, b) == wrapping_sub(a, wrapping_sub(WordZero, b))

\* 018f1c4b-7b8a-7c9d-8e0f-1a2b3c4d5e6f
UuidA ==
    Chars(<<"0", "1", "8", "f", "1", "c", "4", "b", "-", "7", "b", "8", "a", "-",
            "7", "c", "9", "d", "-", "8", "e", "0", "f", "-",
            "1", "a", "2", "b", "3", "c", "4", "d", "5", "e", "6", "f">>)

\* the same with version nibble 4
UuidV4 == Chars([UuidA.chars EXCEPT ![15] = "4"])

\* the same with an upper-case digit
UuidUpper == Chars([UuidA.chars EXCEPT ![4] = "F"])

\* the same with variant nibble c
UuidVariant == Chars([UuidA.chars EXCEPT ![20] = "c"])

\* the same cut by one character
UuidShort == Chars(SubSeq(UuidA.chars, 1, 35))

Uuids == {UuidA, UuidV4, UuidUpper, UuidVariant, UuidShort}

Roles ==
    {"master", "identity", "account", "server", "room", "share", "shareSign",
     "migrate", "migrateSign", "device"}

\* roles whose generator signs the public record with the master key
SignedRoles == {"identity", "account", "share", "shareSign"}

EncRoles == {"account", "share", "migrate", "room", "device"}

SymRoles == {"room", "device"}

SignRoles == {"master", "identity", "server", "shareSign", "migrateSign"}

\* roles with is_valid_<role>_public / _private
PairRoles == {"master", "identity", "account", "server", "share", "shareSign", "migrate"}

\* the closed set of keyType tags of key records
KeyTypeTags ==
    {"masterKeyPublic", "masterKeyPrivate", "identityKeyPublic", "identityKeyPrivate",
     "accountKeyPublic", "accountKeyPrivate", "serverKeyPublic", "serverKeyPrivate",
     "roomKey", "shareKeyPublic", "shareKeyPrivate", "shareSignKeyPublic",
     "shareSignKeyPrivate", "migrateKeyPublic", "migrateKeyPrivate",
     "migrateSignKeyPublic", "migrateSignKeyPrivate", "deviceKey"}

Triple(g) ==
    IF g.k = "some" THEN Some([pub |-> g.v[1], priv |-> g.v[2], sign |-> Some(g.v[3])])
    ELSE None

Pair(p) == Some([pub |-> p[1], priv |-> p[2], sign |-> None])

Single(g) == IF g.k = "some" THEN Some([pub |-> g.v, priv |-> g.v, sign |-> None]) ELSE None

\* generate_<role>: Some([pub, priv, sign]) or None; a symmetric role's one
\* record is given as pub and as priv
Generate(role, n, uuid, master_public, master_private, now) ==
    LET seed == <<role, n>> IN
    CASE role = "master" -> Pair(generate_master_key(seed))
      [] role = "identity" ->
           Triple(generate_identity_key(uuid, master_public, master_private, seed, now))
      [] role = "account" ->
           Triple(generate_account_key(master_public, master_private, seed, now))
      [] role = "server" -> Pair(generate_server_key(seed, now))
      [] role = "room" -> Single(generate_room_key(uuid, seed, now))
      [] role = "share" -> Triple(generate_share_key(master_private, uuid, seed, now))
      [] role = "shareSign" -> Triple(generate_share_sign_key(master_private, uuid, seed, now))
      [] role = "migrate" -> Pair(generate_migrate_key(seed))
      [] role = "migrateSign" -> Pair(generate_migrate_sign_key(seed))
      [] role = "device" -> Single(Some(generate_device_key(seed)))

MasterKeys(n) == Generate("master", n, UuidA, None, None, T0).v

\* the n-th key (pair) of a role, generated under the first master key
KeyTable ==
    [role \in Roles |->
        [n \in Seeds |->
            Generate(role, n, UuidA, MasterKeys(1).pub, MasterKeys(1).priv, T0).v]]

Keys(role, n) == KeyTable[role][n]

Halves(role) == IF role \in SymRoles THEN {"sym"} ELSE {"pub", "priv"}

Rec(role, half, n) == IF half = "priv" THEN Keys(role, n).priv ELSE Keys(role, n).pub

\* is_valid_<role>_public / _private / is_valid_<role>_key
IsValidKey(role, half, json) ==
    CASE role = "master" /\ half = "pub" -> is_valid_master_key_public(json)
      [] role = "master" /\ half = "priv" -> is_valid_master_key_private(json)
      [] role = "identity" /\ half = "pub" -> is_valid_identity_key_public(json)
      [] role = "identity" /\ half = "priv" -> is_valid_identity_key_private(json)
      [] role = "account" /\ half = "pub" -> is_valid_account_key_public(json)
      [] role = "account" /\ half = "priv" -> is_valid_account_key_private(json)
      [] role = "server" /\ half = "pub" -> is_valid_server_key_public(json)
      [] role = "server" /\ half = "priv" -> is_valid_server_key_private(json)
      [] role = "share" /\ half = "pub" -> is_valid_share_key_public(json)
      [] role = "share" /\ half = "priv" -> is_valid_share_key_private(json)
      [] role = "shareSign" /\ half = "pub" -> is_valid_share_sign_key_public(json)
      [] role = "shareSign" /\ half = "priv" -> is_valid_share_sign_key_private(json)
      [] role = "migrate" /\ half = "pub" -> is_valid_migrate_key_public(json)
      [] role = "migrate" /\ half = "priv" -> is_valid_migrate_key_private(json)
      [] role = "room" -> is_valid_room_key(json)
      [] role = "device" -> is_valid_device_key(json)

\* encrypt_data_<role>
EncryptData(role, key_json, data, rng) ==
    CASE role = "account" -> encrypt_data_account_key(key_json, data, rng)
      [] role = "share" -> encrypt_data_share_key(key_json, data, rng)
      [] role = "migrate" -> encrypt_data_migrate_key(key_json, data, rng)
      [] role = "room" -> encrypt_data_room_key(key_json, data, rng)
      [] role = "device" -> encrypt_data_device_key(key_json, data, rng)

\* decrypt_data_<role>
DecryptData(role, key_json, encrypted_json) ==
    CASE role = "account" -> decrypt_data_account_key(key_json, encrypted_json)
      [] role = "share" -> decrypt_data_share_key(key_json, encrypted_json)
      [] role = "migrate" -> decrypt_data_migrate_key(key_json, encrypted_json)
      [] role = "room" -> decrypt_data_room_key(key_json, encrypted_json)
      [] role = "device" -> decrypt_data_device_key(key_json, encrypted_json)

\* is_valid_encrypted_data_<role>
IsValidEncryptedData(role, json) ==
    CASE role = "account" -> is_valid_encrypted_data_account_key(json)
      [] role = "share" -> is_valid_encrypted_data_share_key(json)
      [] role = "migrate" -> is_valid_encrypted_data_migrate_key(json)
      [] role = "room" -> is_valid_encrypted_data_room_key(json)
      [] role = "device" -> is_valid_encrypted_data_device_key(json)

\* sign_<role> / sign_data_<role>
SignData(role, priv_json, data, keyHash) ==
    CASE role = "master" -> sign_master_key(priv_json, data, keyHash)
      [] role = "identity" -> sign_identity_key(priv_json, data, keyHash)
      [] role = "server" -> sign_data_server_key(priv_json, data, keyHash)
      [] role = "shareSign" -> sign_data_share_sign_key(priv_json, data, keyHash)
      [] role = "migrateSign" -> sign_data_migrate_sign_key(priv_json, data, keyHash)

\* verify_<role> / verify_data_<role>
VerifyData(role, pub_json, sign_json, data) ==
    CASE role = "master" -> verify_master_key(pub_json, sign_json, data)
      [] role = "identity" -> verify_identity_key(pub_json, sign_json, data)
      [] role = "server" -> verify_data_server_key(pub_json, sign_json, data)
      [] role = "shareSign" -> verify_data_share_sign_key(pub_json, sign_json, data)
      [] role = "migrateSign" -> verify_data_migrate_sign_key(pub_json, sign_json, data)

(***************************************************************************)
(* What the caller encrypts, signs and sends                               *)
(***************************************************************************)
TextContent == create_text_content(Lit("hi"), None, None, None, None).v

ImageContent ==
    create_image_content(Lit("file:///a.png"), Lit("a.png"), Lit("image/png"), None, None, None).v

VideoContent ==
    create_video_content(Lit("file:///a.mp4"), Lit("a.mp4"), Lit("video/mp4"), None, None, None).v

\* a JSON text with neither a text nor a uri member
OtherContent == Txt(JObj([note |-> JStr(Lit("n"))]))

\* plaintexts of encrypt_data_<role>
Plaintexts == {Lit("hello"), Lit(""), TextContent}

\* message_value_json of encrypt_message
MessageValues == {Lit("hello"), TextContent, ImageContent, VideoContent, OtherContent}

RoomIds == {Lit("r1"), Lit("r2")}

Originals == {None, Some(Lit("m0"))}

MsgTimestamps == {T0, WordZero, I64Min, U64Max}

\* server timestamps tried against a message stamped ts
ServerTimestamps(ts) ==
    {ts, wrapping_sub(ts, Small(1)),
     wrapping_add(ts, Small(FRESHNESS_MS)), wrapping_add(ts, Small(FRESHNESS_MS + 1)),
     wrapping_sub(ts, Small(FRESHNESS_MS)), wrapping_sub(ts, Small(FRESHNESS_MS + 1)),
     WordZero, I64Max, U64Max}

\* metadata_json of encrypt_message
Metadata(timestamp, original) ==
    IF original.k = "some"
    THEN Txt(JObj([channel |-> JStr(Lit("general")), timestamp |-> JNum(timestamp),
                   isLarge |-> JBool(FALSE), original |-> JStr(original.v)]))
    ELSE Txt(JObj([channel |-> JStr(Lit("general")), timestamp |-> JNum(timestamp),
                   isLarge |-> JBool(FALSE)]))

\* struct NotEncryptMessage, serialized by a sender
NotEncryptMessageText(type, content, channel, original, timestamp, is_large, roomid) ==
    Txt(JObj([encrypted |-> JBool(FALSE),
              value |-> JObj([type |-> JStr(type), content |-> JStr(content),
                              reply |-> JNull, mention |-> JNull]),
              channel |-> JStr(channel), original |-> OptStr(original),
              timestamp |-> JNum(timestamp), isLarge |-> JBool(is_large),
              roomid |-> JStr(roomid)]))

\* cleartext messages of type text, and one whose type the schema does not
\* know
CleartextMessages ==
    {NotEncryptMessageText(Lit("text"), TextContent, Lit("general"), None, ts, FALSE, Lit("r1")) :
        ts \in MsgTimestamps}
    \cup {NotEncryptMessageText(Lit("sticker"), TextContent, Lit("general"), None, T0, FALSE,
                                Lit("r1"))}

\* what a signing key of the role is asked to sign
SignDatas(role) ==
    IF role = "identity" THEN {Lit("test"), Lit("")} \cup CleartextMessages
    ELSE {Lit("test"), Lit("")}

\* the keyHash argument of the sign functions
KeyHashes(role, n) == {key_hash(Keys(role, n).pub), Lit("")}

\* a record with its keyType member replaced
SetKeyType(json, tag) == Txt(JObj([json.doc.o EXCEPT !["keyType"] = JStr(Lit(tag))]))

\* a message text with a member replaced after it was signed
SetMember(json, name, value) == Txt(JObj([json.doc.o EXCEPT ![name] = value]))

(***************************************************************************)
(* State: the last call and the call whose result it was given             *)
(***************************************************************************)
NoCall == [fn |-> "none"]

MaxThreads == 3

\* the threads of the caller
Threads == 1..MaxThreads

\* no thread is inside generate_master_key, no helper thread exists, and the
\* platform RNG has given nothing out
Init ==
    /\ call = NoCall
    /\ prev = NoCall
    /\ thr = [t \in Threads |-> [pc |-> "idle", kp |-> None, ret |-> None]]
    /\ helper = [t \in Threads |-> [pc |-> "none", seed |-> 0, out |-> None]]
    /\ os_rng = 0

\* The library keeps nothing between calls: a call that takes nothing from
\* the call before it behaves the same after any history, so it is taken
\* from the initial state.
Fresh == call = NoCall

CallGenerate ==
    /\ Fresh
    /\ \E role \in Roles, n \in Seeds, uuid \in Uuids, mp \in Seeds, m \in Seeds,
          h \in {"pub", "priv"} :
        LET master_public == MasterKeys(mp).pub
            master_private == Rec("master", h, m)
        IN  /\ call' = [fn |-> "generate", role |-> role,
                        in |-> [n |-> n, uuid |-> uuid, master_public |-> master_public,
                                master_private |-> master_private, now |-> T0],
                        out |-> Generate(role, n, uuid, master_public, master_private, T0)]
            /\ prev' = NoCall
            /\ UNCHANGED tvars

\* a record with its key member replaced by an encoding d bytes longer
SetKeyLen(json, d) ==
    SetMember(json, "key", JStr(B64([json.doc.o.key.s.bytes EXCEPT !.len = @ + d])))

\* algorithm identifiers, one of them unknown to the library
Algorithms == {"ML-DSA-65", "ML-DSA-87", "ML-KEM-768", "AES-GCM", "RSA"}

\* strings that are not canonical UUIDs of version 7
NotUuidV7 == {UuidV4, UuidUpper, UuidVariant, UuidShort}

\* a record as generated, or with one member replaced: keyType by a tag of the
\* closed set, key by an encoding one byte shorter or longer or by a string
\* that is not base64, algorithm by another identifier, sessionUuid by
\* another string
Replaced(json) ==
    {json}
    \cup {SetKeyType(json, tag) : tag \in KeyTypeTags}
    \cup {SetKeyLen(json, d) : d \in {-1, 1}}
    \cup {SetMember(json, "key", JStr(Lit("%%%")))}
    \cup (IF "algorithm" \in DOMAIN json.doc.o
          THEN {SetMember(json, "algorithm", JStr(Lit(a))) : a \in Algorithms}
          ELSE {})
    \cup (IF "sessionUuid" \in DOMAIN json.doc.o
          THEN {SetMember(json, "sessionUuid", JStr(u)) : u \in NotUuidV7}
          ELSE {})

\* a validator of the role on a record of the role, as generated or with one
\* member replaced
CallIsValidKey ==
    /\ Fresh
    /\ \E role \in PairRoles \cup SymRoles, n \in Seeds :
        \E half \in Halves(role), of \in Halves(role) :
            \E rec \in Replaced(Rec(role, of, n)) :
                /\ call' = [fn |-> "is_valid_key", role |-> role, half |-> half,
                            in |-> [json |-> rec],
                            out |-> IsValidKey(role, half, rec)]
                /\ prev' = NoCall
                /\ UNCHANGED tvars

\* a generated record is given every plaintext and every draw, a record with
\* a member replaced one plaintext and one draw
CallEncryptData ==
    /\ Fresh
    /\ \E role \in EncRoles, n \in Seeds, data \in Plaintexts, rng \in Rngs :
        \E half \in Halves(role) :
          \E key_json \in Replaced(Rec(role, half, n)) :
                /\ key_json # Rec(role, half, n) => (data = TextContent /\ rng.r = 1)
                /\ call' = [fn |-> "encrypt_data", role |-> role,
                            in |-> [key_json |-> key_json, data |-> data, rng |-> rng],
                            out |-> EncryptData(role, key_json, data, rng)]
                /\ prev' = NoCall
                /\ UNCHANGED tvars

\* the entries of the list encrypt_room_key_with_account_keys returned
FanOutEntries(c) == c.out.v.doc.a

\* the envelopes the last call returned
Envelopes(c) ==
    IF c.fn = "encrypt_data" /\ c.out.k = "some" THEN {c.out.v}
    ELSE IF c.fn = "encrypt_room_key_with_account_keys" /\ c.out.k = "some"
    THEN {FanOutEntries(c)[i].o.encryptedData.s : i \in 1..Len(FanOutEntries(c))}
    ELSE {}

\* the keyType tags of encrypted envelopes
EnvelopeTags == {"accountKey", "shareKey", "migrateKey", "roomKey", "deviceKey"}

\* a hash of 32 bytes that is the hash of no key record
OtherHash == key_hash(Lit("other"))

\* an envelope as returned, or with one member replaced: keyType by another
\* role's tag, keyHash by another hash or by the 12 bytes of iv, iv by the 32
\* bytes of keyHash, encryptedData by a string that is not base64, cipherText
\* removed or added
Received(json) ==
    {json, SetMember(json, "keyHash", JStr(OtherHash))}
    \cup {SetKeyType(json, tag) : tag \in EnvelopeTags}
    \cup {SetMember(json, "keyHash", json.doc.o.iv),
          SetMember(json, "iv", json.doc.o.keyHash),
          SetMember(json, "encryptedData", JStr(Lit("%%%"))),
          SetMember(json, "cipherText",
                    IF json.doc.o.cipherText.t = "null" THEN json.doc.o.keyHash ELSE JNull)}

CallDecryptData ==
    \E made \in Envelopes(call), role \in EncRoles, n \in Seeds :
        \E half \in Halves(role), encrypted_json \in Received(made) :
            LET key_json == Rec(role, half, n)
            IN  /\ call' = [fn |-> "decrypt_data", role |-> role,
                            in |-> [key_json |-> key_json, encrypted_json |-> encrypted_json],
                            out |-> DecryptData(role, key_json, encrypted_json)]
                /\ prev' = call
                /\ UNCHANGED tvars

CallIsValidEncryptedData ==
    \E made \in Envelopes(call), role \in EncRoles :
        \E json \in Received(made) :
        /\ call' = [fn |-> "is_valid_encrypted_data", role |-> role,
                    in |-> [json |-> json],
                    out |-> IsValidEncryptedData(role, json)]
        /\ prev' = call
        /\ UNCHANGED tvars

CallSignData ==
    /\ Fresh
    /\ \E role \in SignRoles, n \in Seeds, half \in {"pub", "priv"} :
        \E data \in SignDatas(role), keyHash \in KeyHashes(role, n) :
            LET priv_json == Rec(role, half, n)
            IN  /\ call' = [fn |-> "sign_data", role |-> role,
                            in |-> [priv_json |-> priv_json, data |-> data, keyHash |-> keyHash],
                            out |-> SignData(role, priv_json, data, keyHash)]
                /\ prev' = NoCall
                /\ UNCHANGED tvars

\* the public record of a pair, as generated or tagged as the private one
PublicGiven(role, n) ==
    {Keys(role, n).pub, SetKeyType(Keys(role, n).pub, role \o "KeyPrivate")}

\* a signed envelope as returned, or tagged as that of another domain
SignGiven(json) == {json} \cup {SetKeyType(json, role \o "Key") : role \in {"master", "server"}}

CallVerifyData ==
    /\ call.fn = "sign_data"
    /\ call.out.k = "some"
    /\ \E role \in SignRoles, n \in Seeds, data \in {call.in.data, Lit("other")} :
        \E pub_json \in PublicGiven(role, n), sign_json \in SignGiven(call.out.v) :
                /\ call' = [fn |-> "verify_data", role |-> role,
                            in |-> [pub_json |-> pub_json, sign_json |-> sign_json, data |-> data],
                            out |-> VerifyData(role, pub_json, sign_json, data)]
                /\ prev' = call
                /\ UNCHANGED tvars

\* signing domains with a sign validator
SignValidatorRoles == {"master", "identity", "shareSign", "migrateSign"}

\* is_valid_sign_<role>
IsValidSign(role, json) ==
    CASE role = "master" -> is_valid_sign_master_key(json)
      [] role = "identity" -> is_valid_sign_identity_key(json)
      [] role = "shareSign" -> is_valid_sign_share_sign_key(json)
      [] role = "migrateSign" -> is_valid_sign_migrate_sign_key(json)

\* the keyType tag of the signed envelopes of a signing domain
SignTag(role) == role \o "Key"

\* a signed envelope as returned, or with one member replaced: keyType by the
\* tag of a signing domain, algorithm by another identifier or removed
Presented(json) ==
    {json}
    \cup {SetKeyType(json, SignTag(role)) : role \in SignRoles}
    \cup {SetMember(json, "algorithm", JStr(Lit(a))) : a \in Algorithms}
    \cup {SetMember(json, "algorithm", JNull)}

CallIsValidSign ==
    /\ call.fn = "sign_data"
    /\ call.out.k = "some"
    /\ \E role \in SignValidatorRoles, json \in Presented(call.out.v) :
        /\ call' = [fn |-> "is_valid_sign", role |-> role,
                    in |-> [json |-> json],
                    out |-> IsValidSign(role, json)]
        /\ prev' = call
        /\ UNCHANGED tvars

\* what is_valid_key_pair_sign is given as a record: a half of a generated
\* signing pair, as generated or tagged as a master or an identity key, or a
\* text that is not JSON
PairRecords ==
    UNION {{Rec(role, half, n)}
           \cup {SetKeyType(Rec(role, half, n), tag) :
                  tag \in {"masterKeyPublic", "masterKeyPrivate",
                           "identityKeyPublic", "identityKeyPrivate"}} :
           role \in SignRoles, half \in {"pub", "priv"}, n \in Seeds}
    \cup {Lit("not json")}

CallIsValidKeyPairSign ==
    /\ Fresh
    /\ \E pub_json \in PairRecords, priv_json \in PairRecords :
        /\ call' = [fn |-> "is_valid_key_pair_sign", role |-> "master",
                    in |-> [pub_json |-> pub_json, priv_json |-> priv_json],
                    out |-> is_valid_key_pair_sign(pub_json, priv_json)]
        /\ prev' = NoCall
        /\ UNCHANGED tvars

MaxUsers == 2

\* entries of a users array: well-formed ones of the generated account keys,
\* one whose accountKey is a private record, one without userId, one whose
\* accountKey is null
UserEntries ==
    {JObj([userId |-> JStr(Lit("u" \o ToString(n))),
           accountKey |-> JStr(Keys("account", n).pub)]) : n \in Seeds}
    \cup {JObj([userId |-> JStr(Lit("x")), accountKey |-> JStr(Keys("account", 1).priv)]),
          JObj([accountKey |-> JStr(Keys("account", 1).pub)]),
          JObj([userId |-> JStr(Lit("y")), accountKey |-> JNull])}

UserLists == UNION {[1..len -> UserEntries] : len \in 0..MaxUsers}

\* what OsRng yields while the i-th entry is encrypted
EntryRngs(len) == [i \in 1..len |-> [r |-> i, iv |-> i]]

CallEncryptRoomKeyWithAccountKeys ==
    /\ Fresh
    /\ \E users \in UserLists :
        LET users_json == Txt(JArr(users))
            room_key_json == Keys("room", 1).pub
        IN  /\ call' = [fn |-> "encrypt_room_key_with_account_keys", role |-> "account",
                        in |-> [users_json |-> users_json, room_key_json |-> room_key_json],
                        out |-> encrypt_room_key_with_account_keys(
                                    users_json, room_key_json, EntryRngs(Len(users)))]
            /\ prev' = NoCall
            /\ UNCHANGED tvars

CallEncryptMessage ==
    /\ Fresh
    /\ \E message_value_json \in MessageValues, timestamp \in MsgTimestamps,
       original \in Originals, roomid \in RoomIds, rng \in Rngs :
        LET metadata_json == Metadata(timestamp, original)
            room_key_json == Keys("room", 1).pub
            identity_priv_json == Keys("identity", 1).priv
            identity_pubhash == key_hash(Keys("identity", 1).pub)
        IN  /\ call' = [fn |-> "encrypt_message", role |-> "identity",
                        in |-> [message_value_json |-> message_value_json,
                                metadata_json |-> metadata_json,
                                room_key_json |-> room_key_json,
                                identity_priv_json |-> identity_priv_json,
                                identity_pubhash |-> identity_pubhash,
                                roomid |-> roomid, rng |-> rng],
                        out |-> encrypt_message(message_value_json, metadata_json,
                                                room_key_json, identity_priv_json,
                                                identity_pubhash, roomid, rng)]
            /\ prev' = NoCall
            /\ UNCHANGED tvars

\* the {message, sign} pairs the last call left for a recipient: what
\* encrypt_message returned, or a cleartext message and the envelope
\* sign_identity_key returned for it
Sent(c) ==
    IF c.fn = "encrypt_message" /\ c.out.k = "some"
    THEN {[message |-> c.out.v.doc.o.message.s, sign |-> c.out.v.doc.o.sign.s]}
    ELSE IF c.fn = "sign_data" /\ c.role = "identity" /\ c.out.k = "some"
            /\ c.in.data \in CleartextMessages
    THEN {[message |-> c.in.data, sign |-> c.out.v]}
    ELSE {}

\* the message text as it reaches the recipient: as signed, or with its
\* roomid or timestamp member rewritten on the way
Delivered(message, roomid, server_timestamp) ==
    {message, SetMember(message, "roomid", JStr(roomid)),
     SetMember(message, "timestamp", JNum(server_timestamp))}

\* the room keys a recipient passes: the generated ones, and a text that is
\* no room key
RoomKeysGiven == {Keys("room", rk).pub : rk \in Seeds} \cup {Lit("no key")}

CallDecryptMessage ==
    \E sent \in Sent(call), roomid \in RoomIds, room_key_json \in RoomKeysGiven, ik \in Seeds,
       half \in {"pub", "priv"}, overflow_checks \in BOOLEAN :
        \E server_timestamp \in ServerTimestamps(sent.message.doc.o.timestamp.n) :
            \E message_str \in Delivered(sent.message, roomid, server_timestamp) :
                LET identity_pub_json == Rec("identity", half, ik)
                    run == decrypt_message_run(message_str, sent.sign, server_timestamp,
                                               room_key_json, identity_pub_json, roomid,
                                               overflow_checks)
                IN  /\ call' = [fn |-> "decrypt_message", role |-> "identity",
                                in |-> [message_str |-> message_str, sign_str |-> sent.sign,
                                        server_timestamp |-> server_timestamp,
                                        room_key_json |-> room_key_json,
                                        identity_pub_json |-> identity_pub_json,
                                        roomid |-> roomid,
                                        overflow_checks |-> overflow_checks],
                                out |-> run.ret, steps |-> run.steps]
                    /\ prev' = call
                    /\ UNCHANGED tvars

Next ==
    \/ CallGenerate
    \/ CallIsValidKey
    \/ CallEncryptData
    \/ CallDecryptData
    \/ CallIsValidEncryptedData
    \/ CallSignData
    \/ CallVerifyData
    \/ CallIsValidSign
    \/ CallIsValidKeyPairSign
    \/ CallEncryptRoomKeyWithAccountKeys
    \/ CallEncryptMessage
    \/ CallDecryptMessage

Spec == Init /\ [][Next]_vars

(***************************************************************************)
(* generate_master_key called from several threads (the build with         *)
(* threads, keyutils.rs:39-53; on wasm32 there is no thread to call from). *)
(* Each caller thread t goes through generate_dsa87_key_pair step by step; *)
(* the platform is taken to grant the helper thread and its stack.         *)
(* OsRng is the one thing the threads share: a draw is atomic and no two   *)
(* draws give the same randomness.                                         *)
(***************************************************************************)
\* the helper thread whose JoinHandle the call of thread t holds
handle_shared(t) == 1

\* keyutils.rs:41-48: `handle` is a local of the call that spawned the thread
handle(t) == t

\* thread t enters generate_master_key and generate_dsa87_key_pair
Enter(t) ==
    /\ thr[t].pc = "idle"
    /\ thr' = [thr EXCEPT ![t].pc = "spawn"]
    /\ UNCHANGED <<call, prev, helper, os_rng>>

\* thread::Builder::new().stack_size(8 MiB).spawn(closure)
Spawn(t) ==
    /\ thr[t].pc = "spawn"
    /\ helper' = [helper EXCEPT ![t].pc = "key_gen"]
    /\ thr' = [thr EXCEPT ![t].pc = "join"]
    /\ UNCHANGED <<call, prev, os_rng>>

\* the helper runs MlDsa87::key_gen(&mut rng): it draws from OsRng
KeyGen(t) ==
    /\ helper[t].pc = "key_gen"
    /\ os_rng' = os_rng + 1
    /\ helper' = [helper EXCEPT ![t].pc = "encode", ![t].seed = os_rng + 1]
    /\ UNCHANGED <<call, prev, thr>>

\* the helper encodes both keys and finishes with (pk, sk)
Encode(t) ==
    /\ helper[t].pc = "encode"
    /\ helper' = [helper EXCEPT
                    ![t].pc = "done",
                    ![t].out = Some(generate_dsa87_key_pair(<<"master", helper[t].seed>>))]
    /\ UNCHANGED <<call, prev, thr, os_rng>>

\* handle.join(): waits until the helper has finished and takes its value
Join(t) ==
    /\ thr[t].pc = "join"
    /\ helper[handle(t)].pc = "done"
    /\ thr' = [thr EXCEPT ![t].pc = "serialize", ![t].kp = helper[handle(t)].out]
    /\ helper' = [helper EXCEPT ![handle(t)].pc = "joined"]
    /\ UNCHANGED <<call, prev, os_rng>>

\* master_key.rs:9-14: the two records are serialized and returned
Return(t) ==
    /\ thr[t].pc = "serialize"
    /\ thr' = [thr EXCEPT
                 ![t].pc = "returned",
                 ![t].ret = Some(<<MasterKeyText("masterKeyPublic", thr[t].kp.v[1]),
                                   MasterKeyText("masterKeyPrivate", thr[t].kp.v[2])>>)]
    /\ UNCHANGED <<call, prev, helper, os_rng>>

NextThreads ==
    \E t \in Threads :
        \/ Enter(t)
        \/ Spawn(t)
        \/ KeyGen(t)
        \/ Encode(t)
        \/ Join(t)
        \/ Return(t)

\* a thread that can take a step is scheduled eventually; the caller decides
\* whether to call at all, so Enter is not forced
Scheduled ==
    \A t \in Threads :
        /\ WF_vars(Spawn(t))
        /\ WF_vars(KeyGen(t))
        /\ WF_vars(Encode(t))
        /\ WF_vars(Join(t))
        /\ WF_vars(Return(t))

SpecThreads == Init /\ [][NextThreads]_vars /\ Scheduled

(***************************************************************************)
(* Properties of decrypt_message                                           *)
(***************************************************************************)
\* the private record that signed what the call before left for a recipient
SignerPriv(p) ==
    IF p.fn = "encrypt_message" THEN p.in.identity_priv_json ELSE p.in.priv_json

\* the last call is decrypt_message on a message text exactly as it was
\* signed, with the public record of the pair whose private record signed it
Genuine ==
    /\ call.fn = "decrypt_message"
    /\ \E sent \in Sent(prev) : call.in.message_str = sent.message
    /\ \E n \in Seeds :
        /\ SignerPriv(prev) = Keys("identity", n).priv
        /\ call.in.identity_pub_json = Keys("identity", n).pub

MessageMember(name) == call.in.message_str.doc.o[name]

\* the message carries the roomid the recipient passes
SameRoomid == MessageMember("roomid").s = call.in.roomid

\* an encrypted message is decrypted with the room key that encrypted it
Decrypts == prev.fn = "encrypt_message" => call.in.room_key_json = prev.in.room_key_json

\* |timestamp - server_timestamp| <= 60000 over the natural numbers
WithinWindow ==
    ~GtSmall(Distance(MessageMember("timestamp").n, call.in.server_timestamp), FRESHNESS_MS)

\* C1: a correctly signed message with the caller's roomid that decrypts is
\* given a result whenever its timestamp is at most 60000 ms away from
\* server_timestamp, earlier or later, and absent whenever it is 60001 ms or
\* more away.
C1_FreshnessWindow ==
    (Genuine /\ SameRoomid /\ Decrypts) =>
        IF WithinWindow THEN call.out.k = "some" ELSE call.out = None

\* C2: decrypt_message returns absent for every message, encrypted or
\* cleartext, whose roomid member differs from the roomid parameter, even when
\* the signature verifies, the timestamp is in the window and the ciphertext
\* is valid.
C2_RoomidBinding ==
    (call.fn = "decrypt_message" /\ ~SameRoomid) => call.out = None

C2_Witness ==
    /\ Genuine
    /\ prev.fn = "encrypt_message"
    /\ Decrypts
    /\ WithinWindow
    /\ ~SameRoomid
    /\ call.out = None

\* C3: decrypt_message returns a result only if identity_pub_json passes
\* is_valid_identity_key_public and sign_str is the signature of exactly
\* message_str under that key; a message altered after signing, or signed by
\* another key, gives no result; and no step after the verification (parsing,
\* the roomid and timestamp checks, decryption) is taken unless it succeeded.
C3_SignatureGating ==
    call.fn = "decrypt_message" =>
        /\ call.out.k = "some" =>
                is_valid_identity_key_public(call.in.identity_pub_json) /\ Genuine
        /\ ~Genuine => call.out = None
        /\ Len(call.steps) > 2 => Genuine
        /\ \A i \in DOMAIN call.steps :
                IF i = 1 THEN call.steps[i] = "is_valid_identity_key_public"
                ELSE IF i = 2 THEN call.steps[i] = "verify_identity_key"
                ELSE call.steps[i] \in {"parse", "roomid", "freshness", "is_valid_room_key",
                                        "is_valid_encrypted_data_room_key",
                                        "decrypt_data_room_key"}

C3_Witness ==
    /\ call.fn = "decrypt_message"
    /\ is_valid_identity_key_public(call.in.identity_pub_json)
    /\ ~Genuine
    /\ SameRoomid
    /\ WithinWindow
    /\ call.out = None
    /\ call.steps = <<"is_valid_identity_key_public", "verify_identity_key">>

\* C4: whenever encrypt_message returned {message, sign}, decrypt_message of
\* them with the same room key, the matching identity public record, the same
\* roomid and a server timestamp at most 60000 ms away returns a record with
\* the original plaintext as content and the channel, timestamp, isLarge,
\* original and roomid given at encryption.
C4_MessageRoundTrip ==
    (/\ Genuine
     /\ prev.fn = "encrypt_message"
     /\ Decrypts
     /\ call.in.roomid = prev.in.roomid
     /\ WithinWindow) =>
        /\ call.out.k = "some"
        /\ LET r == call.out.v.doc.o
               m == prev.in.metadata_json.doc.o
           IN  /\ r.value.o.content = JStr(prev.in.message_value_json)
               /\ r.channel = m.channel
               /\ r.timestamp = m.timestamp
               /\ r.isLarge = m.isLarge
               /\ r.original = (IF "original" \in DOMAIN m THEN m.original ELSE JNull)
               /\ r.roomid = JStr(prev.in.roomid)

(***************************************************************************)
(* Properties of encrypt_room_key_with_account_keys                        *)
(***************************************************************************)
\* the account key pairs whose public record is the entry's accountKey
AccountOf(u) == {n \in Seeds : Get(u, "accountKey") = JStr(Keys("account", n).pub)}

\* C5: the list encrypt_room_key_with_account_keys returns has exactly one
\* entry per input user (an entry with a userId) whose accountKey encrypts, in
\* the order of the input,
\* with that user's userId and an envelope that decrypt_data_account_key opens
\* with the matching private record to the room_key_json text.
C5_FanOutPreservation ==
    call.fn = "encrypt_room_key_with_account_keys" =>
        LET users == call.in.users_json.doc.a
            Encrypts(i) == as_str(Get(users[i], "userId")).k = "some" /\ AccountOf(users[i]) # {}
            good == SelectSeq([i \in 1..Len(users) |-> i], Encrypts)
        IN  /\ call.out.k = "some"
            /\ Len(FanOutEntries(call)) = Len(good)
            /\ \A j \in 1..Len(good) :
                LET e == FanOutEntries(call)[j].o
                    u == users[good[j]]
                IN  /\ e.userId = Get(u, "userId")
                    /\ \A n \in AccountOf(u) :
                        decrypt_data_account_key(Keys("account", n).priv, e.encryptedData.s)
                            = Some(call.in.room_key_json)

(***************************************************************************)
(* Properties of the key managers                                          *)
(***************************************************************************)
\* the last call was given the result of a call on the n-th key (pair) of
\* its own role: the earlier call had the half `a`, the last one the half `b`
SamePair(a, b) ==
    /\ call.role = prev.role
    /\ \E n \in Seeds :
        /\ (IF prev.fn = "sign_data" THEN prev.in.priv_json ELSE prev.in.key_json)
                = Rec(prev.role, a, n)
        /\ (IF call.fn = "verify_data" THEN call.in.pub_json ELSE call.in.key_json)
                = Rec(call.role, b, n)

\* C6: for each encryption role (account, share, migrate, room, device), each
\* generated key (pair) and each plaintext p, decrypting with the private or
\* symmetric record what was encrypted with the public or symmetric record
\* returns exactly p.
C6_EncryptionRoundTrip ==
    (/\ call.fn = "decrypt_data"
     /\ prev.fn = "encrypt_data"
     /\ SamePair("pub", "priv")
     /\ Some(call.in.encrypted_json) = prev.out) =>
        /\ prev.out.k = "some"
        /\ call.out = Some(prev.in.data)

C6_Witness ==
    /\ call.fn = "decrypt_data"
    /\ prev.fn = "encrypt_data"
    /\ SamePair("pub", "priv")
    /\ Some(call.in.encrypted_json) = prev.out
    /\ call.role = "share"
    /\ prev.in.data = TextContent
    /\ call.out = Some(TextContent)

\* C7: for each signing role (master, identity, server, shareSign,
\* migrateSign), each generated pair, each data d and each keyHash h, signing
\* d with the private record succeeds and the envelope verifies over d with
\* the public record; the outcome is the same for every h.
C7_SignatureRoundTrip ==
    /\ (call.fn = "sign_data" /\ \E n \in Seeds : call.in.priv_json = Keys(call.role, n).priv)
            => call.out.k = "some"
    /\ (/\ call.fn = "verify_data"
        /\ SamePair("priv", "pub")
        /\ call.in.data = prev.in.data
        /\ Some(call.in.sign_json) = prev.out) =>
            /\ call.out = TRUE
            /\ \A h \in {prev.in.keyHash, Lit(""), Lit("h"), key_hash(call.in.pub_json)} :
                LET s == SignData(prev.role, prev.in.priv_json, prev.in.data, h) IN
                    /\ s.k = "some"
                    /\ VerifyData(call.role, call.in.pub_json, s.v, call.in.data) = call.out

C7_Witness ==
    /\ call.fn = "verify_data"
    /\ SamePair("priv", "pub")
    /\ call.role = "master"
    /\ call.in.data = prev.in.data
    /\ Some(call.in.sign_json) = prev.out
    /\ prev.in.keyHash = Lit("")
    /\ call.out = TRUE

\* the role whose encrypt function made the envelope the last call was given
EnvelopeRole == prev.role

\* C8: an envelope made by the encrypt function of one encryption role is
\* accepted by that role's is_valid_encrypted_data and rejected by that of
\* every other encryption role.
C8_CrossRoleRejection ==
    (call.fn = "is_valid_encrypted_data" /\ call.in.json \in Envelopes(prev))
        => call.out = (call.role = EnvelopeRole)

C8_Witness ==
    /\ call.fn = "is_valid_encrypted_data"
    /\ call.in.json \in Envelopes(prev)
    /\ prev.fn = "encrypt_data"
    /\ EnvelopeRole = "device"
    /\ call.role = "room"
    /\ call.out = FALSE

\* the half of a generated pair of the call's role that the validated record is
GeneratedHalves ==
    {h \in {"pub", "priv"} : \E n \in Seeds : call.in.json = Rec(call.role, h, n)}

\* C9: for each role with a public and a private validator, the generated
\* public record passes the public validator, the generated private record
\* passes the private validator, and each is rejected by the other validator.
C9_RightHalfOnly ==
    (call.fn = "is_valid_key" /\ call.role \in PairRoles) =>
        \A h \in GeneratedHalves : call.out = (call.half = h)

C9_Witness ==
    /\ call.fn = "is_valid_key"
    /\ call.role = "identity"
    /\ call.half = "pub"
    /\ GeneratedHalves = {"priv"}
    /\ call.out = FALSE

\* the record is a generated record of the validator's role and half whose
\* keyType was replaced by another tag of the closed set
Retagged ==
    \E n \in Seeds, tag \in KeyTypeTags :
        /\ F(Rec(call.role, call.half, n), "keyType") # Lit(tag)
        /\ call.in.json = SetKeyType(Rec(call.role, call.half, n), tag)

\* C10: for each role, roomKey and deviceKey included, the key validator
\* returns false on a generated valid record whose keyType was replaced by any
\* other tag of the closed keyType set.
C10_KeyTypeDiscriminator ==
    (call.fn = "is_valid_key" /\ Retagged) => call.out = FALSE

\* the generated records of the validator's role and half
OwnRecords == {Rec(call.role, call.half, n) : n \in Seeds}

\* C11: for each role, the key validator returns false on a generated valid
\* record whose key was replaced by an encoding one byte shorter or one byte
\* longer than the length table says.
C11_KeyLengthDiscriminator ==
    (/\ call.fn = "is_valid_key"
     /\ \E rec \in OwnRecords, d \in {-1, 1} : call.in.json = SetKeyLen(rec, d))
        => call.out = FALSE

\* C12: for each role whose record carries algorithm (identity, account, room,
\* share, shareSign), the key validator returns false on a generated valid
\* record whose algorithm was replaced by any other string.
C12_AlgorithmDiscriminator ==
    (/\ call.fn = "is_valid_key"
     /\ call.role \in {"identity", "account", "room", "share", "shareSign"}
     /\ \E rec \in OwnRecords, a \in Algorithms :
            /\ F(rec, "algorithm") # Lit(a)
            /\ call.in.json = SetMember(rec, "algorithm", JStr(Lit(a))))
        => call.out = FALSE

\* C13: for each role whose record carries sessionUuid (identity, room, share,
\* shareSign), the key validator returns false on a generated valid record
\* whose sessionUuid was replaced by a string that is not a canonical UUID of
\* version 7.
C13_SessionUuidDiscriminator ==
    (/\ call.fn = "is_valid_key"
     /\ call.role \in {"identity", "room", "share", "shareSign"}
     /\ \E rec \in OwnRecords, u \in NotUuidV7 :
            call.in.json = SetMember(rec, "sessionUuid", JStr(u)))
        => call.out = FALSE

\* the last call was a generator of a role with a parent signer, and it
\* returned its triple
SignedTriple ==
    /\ call.fn = "generate"
    /\ call.role \in SignedRoles
    /\ call.out.k = "some"

\* C14: whenever a generator of a role with a parent signer (account,
\* identity, share, shareSign) returns (public, private, sign), sign has
\* keyType "masterKey" and algorithm "ML-DSA-87", and verify_master_key is
\* true of the master public record paired with the master private record
\* used, sign, and the exact returned public record text.
C14_ParentSignature ==
    SignedTriple =>
        LET sign == call.out.v.sign.v IN
        /\ F(sign, "keyType") = Lit("masterKey")
        /\ FOpt(sign, "algorithm") = Some(Lit("ML-DSA-87"))
        /\ \E m \in Seeds :
            /\ MasterKeys(m).priv = call.in.master_private
            /\ verify_master_key(MasterKeys(m).pub, sign, call.out.v.pub)

\* a triple generated with the private record of one master key and the
\* public record of another
C14_Witness ==
    /\ SignedTriple
    /\ call.role = "identity"
    /\ call.in.master_private = MasterKeys(2).priv
    /\ call.in.master_public = MasterKeys(1).pub

\* the last call is decrypt_message on a correctly signed encrypted message
\* with the caller's roomid and a timestamp in the window, and it went on
\* past the freshness check
ReachedDecryption ==
    /\ Genuine
    /\ prev.fn = "encrypt_message"
    /\ SameRoomid
    /\ WithinWindow
    /\ Len(call.steps) > 5

\* C15: for a correctly signed, fresh, roomid-matching encrypted message,
\* any failure of the decryption step (such as a room key that passes
\* is_valid_room_key but is not the key that encrypted the value) makes
\* decrypt_message return absent; the call never ends in a panic.
C15_FailsClosed ==
    ReachedDecryption =>
        /\ call.out # Panic
        /\ ~Decrypts => call.out = None

\* the keyType tag of the envelopes of an encryption role
EnvelopeTag(role) == role \o "Key"

\* C16: for every encryption role R, is_valid_encrypted_data of R returns
\* true only if keyType is R's tag, keyHash decodes to exactly 32 bytes, iv
\* decodes to exactly 12 bytes, encryptedData is valid base64, and cipherText
\* is present exactly when R is a KEM role (account, share, migrate).
C16_EnvelopeInvariant ==
    (call.fn = "is_valid_encrypted_data" /\ call.out = TRUE) =>
        LET json == call.in.json
            h == b64_decode(F(json, "keyHash"))
            iv == b64_decode(F(json, "iv"))
        IN  /\ F(json, "keyType") = Lit(EnvelopeTag(call.role))
            /\ h.k = "some" /\ ByteLen(h.v) = SHA256_LEN
            /\ iv.k = "some" /\ ByteLen(iv.v) = IV_LEN
            /\ b64_decode(F(json, "encryptedData")).k = "some"
            /\ (FOpt(json, "cipherText").k = "some") = (call.role \notin SymRoles)

\* the DSA parameter set of a signing domain
DsaParameterSet(role) == IF role = "master" THEN "ML-DSA-87" ELSE "ML-DSA-65"

\* C17: for every signing domain D with a sign validator (master, identity,
\* shareSign, migrateSign), is_valid_sign of D returns true only if the
\* envelope's keyType equals D's tag and its algorithm equals D's DSA
\* parameter set (ML-DSA-87 for master, ML-DSA-65 for the others).
C17_SignedEnvelopeInvariant ==
    (call.fn = "is_valid_sign" /\ call.out = TRUE) =>
        /\ F(call.in.json, "keyType") = Lit(SignTag(call.role))
        /\ FOpt(call.in.json, "algorithm") = Some(Lit(DsaParameterSet(call.role)))

\* the entry can be encrypted: it has a string userId and its accountKey is
\* a generated account public record
Encryptable(u) == as_str(Get(u, "userId")).k = "some" /\ AccountOf(u) # {}

\* C18: encrypt_room_key_with_account_keys returns a list for every users
\* array; an entry that cannot be encrypted (its accountKey is not a valid
\* account public record, or it lacks a string accountKey or userId) is left
\* out and does not keep the other entries from being emitted.
C18_FanOutDropSemantics ==
    call.fn = "encrypt_room_key_with_account_keys" =>
        LET users == call.in.users_json.doc.a IN
        /\ call.out.k = "some"
        /\ LET emitted == {FanOutEntries(call)[j].o.userId :
                                j \in 1..Len(FanOutEntries(call))}
           IN  emitted = {Get(users[i], "userId") : i \in {k \in 1..Len(users) : Encryptable(users[k])}}

\* the half of a role's key that decrypts
DecryptHalf(role) == IF role \in SymRoles THEN "sym" ELSE "priv"

\* C20: for every encryption role R, decrypt_data of R returns absent,
\* without running any decryption, when the key record fails R's key
\* validator or when the envelope fails is_valid_encrypted_data of R (in
\* particular when the envelope's keyType is another role's tag).
C20_DecryptValidatesBoth ==
    (/\ call.fn = "decrypt_data"
     /\ \/ ~IsValidKey(call.role, DecryptHalf(call.role), call.in.key_json)
        \/ ~IsValidEncryptedData(call.role, call.in.encrypted_json))
        => call.out = None

(***************************************************************************)
(* Properties of concurrent generate_master_key                            *)
(***************************************************************************)
\* thread t is inside generate_master_key
InFlight(t) == thr[t].pc \in {"spawn", "join", "serialize"}

\* thread t has its own pair: made from what its own helper drew, unlike the
\* pair of any other thread, and valid
OwnPair(t) ==
    thr[t].pc = "returned" =>
        /\ thr[t].ret = Some(generate_master_key(<<"master", helper[t].seed>>))
        /\ is_valid_master_key_public(thr[t].ret.v[1])
        /\ is_valid_master_key_private(thr[t].ret.v[2])
        /\ \A u \in Threads \ {t} : thr[u].pc = "returned" => thr[u].ret # thr[t].ret

\* every call in flight has a helper thread of its own: no two calls wait for
\* the same one, and a call past spawn has one
OwnHelper(t) ==
    thr[t].pc = "join" => helper[t].pc \in {"key_gen", "encode", "done"}

\* C19: when two or more threads call generate_master_key concurrently, each
\* call spawns its own helper thread, joins it, and terminates returning its
\* own (public, private) pair, which passes is_valid_master_key_public and
\* is_valid_master_key_private; no interleaving lets one call see or change
\* the result of another.
C19_ConcurrentGeneration ==
    /\ [](\A t \in Threads : OwnPair(t) /\ OwnHelper(t))
    /\ \A t \in Threads : InFlight(t) ~> (thr[t].pc = "returned")
    /\ [][\A t \in Threads : thr[t].pc = "returned" => thr'[t] = thr[t]]_vars

\* thread 1 has returned the pair of the second draw while thread 2, whose
\* helper made the first draw, is still waiting in join: the helper of
\* thread 1 ran during the call of thread 2
C19_Witness ==
    /\ thr[1].pc = "returned"
    /\ helper[1].seed = 2
    /\ thr[2].pc = "join"
    /\ helper[2].seed = 1
    /\ OwnPair(1)

(***************************************************************************)
(* Properties of encrypt_data and decrypt_data                             *)
(***************************************************************************)
\* the algorithm identifier of the key records of an encryption role
RoleAlgorithm(role) == IF role \in SymRoles THEN "AES-GCM" ELSE "ML-KEM-768"

\* the record satisfies every invariant of the records the role encrypts
\* with: the role's public (or symmetric) keyType, the role's algorithm and a
\* UUIDv7 sessionUuid where the record carries them, and a base64 key of the
\* role's length
EncryptionKeyInvariants(role, json) ==
    LET o == json.doc.o
        bytes == b64_decode(F(json, "key"))
    IN  /\ F(json, "keyType") = Lit(IF role \in SymRoles THEN role \o "Key"
                                    ELSE role \o "KeyPublic")
        /\ "algorithm" \in DOMAIN o => F(json, "algorithm") = Lit(RoleAlgorithm(role))
        /\ "sessionUuid" \in DOMAIN o => is_valid_uuid_v7(F(json, "sessionUuid"))
        /\ bytes.k = "some"
        /\ ByteLen(bytes.v) = (IF role \in SymRoles THEN SYM_KEY_LEN ELSE KEM_PUB_LEN)

\* C21: for every encryption role R, encrypt_data of R returns absent, and
\* never aborts, when the key record violates any of the role's invariants
\* (wrong keyType, wrong algorithm, sessionUuid that is not a UUIDv7, key that
\* is not base64 or has not the role's length).
C21_EncryptValidationLadder ==
    (call.fn = "encrypt_data" /\ ~EncryptionKeyInvariants(call.role, call.in.key_json))
        => call.out = None

\* the envelopes of the call before whose keyHash alone was replaced to give
\* the envelope the last call was given
SameButKeyHash ==
    {made \in Envelopes(prev) :
        /\ call.in.encrypted_json # made
        /\ call.in.encrypted_json = SetMember(made, "keyHash", JStr(OtherHash))}

\* C22: for every encryption role R, two envelopes that differ only in the
\* value of keyHash, both well-formed, give the same decrypt_data result under
\* the same key, also when keyHash is not the hash of the key record.
C22_KeyHashIndependence ==
    call.fn = "decrypt_data" =>
        \A made \in SameButKeyHash :
            call.out = DecryptData(call.role, call.in.key_json, made)

\* a room envelope with another keyHash is opened with the key that made it
C22_Witness ==
    /\ call.fn = "decrypt_data"
    /\ call.role = "room"
    /\ prev.fn = "encrypt_data"
    /\ SameButKeyHash # {}
    /\ call.in.key_json = prev.in.key_json
    /\ call.out = Some(prev.in.data)

MasterTagged(json) ==
    /\ json.c = "json"
    /\ StrOrEmpty(json.doc, "keyType") \in {Lit("masterKeyPublic"), Lit("masterKeyPrivate")}

\* signing "test" with the key of priv_json and verifying with the key of
\* pub_json succeeds under the parameter set
ProbeSucceeds(alg, pub_json, priv_json) ==
    /\ pub_json.c = "json"
    /\ priv_json.c = "json"
    /\ LET pkey == StrOrEmpty(pub_json.doc, "key")
           skey == StrOrEmpty(priv_json.doc, "key")
           sig == IF alg = "ML-DSA-87" THEN sign_with_mlds87(skey, Lit("test"))
                  ELSE sign_with_mlds65(skey, Lit("test"))
       IN  /\ sig.k = "some"
           /\ IF alg = "ML-DSA-87" THEN verify_with_mlds87(pkey, Lit("test"), sig.v)
              ELSE verify_with_mlds65(pkey, Lit("test"), sig.v)

\* C24: the probe of is_valid_key_pair_sign uses ML-DSA-87 if either of the
\* two records has a master keyType (masterKeyPublic or masterKeyPrivate) and
\* ML-DSA-65 otherwise, and the function returns exactly whether that
\* verification succeeded (false on records that do not parse).
C24_ParameterSetSelection ==
    call.fn = "is_valid_key_pair_sign" =>
        LET p == call.in.pub_json
            s == call.in.priv_json
            alg == IF MasterTagged(p) \/ MasterTagged(s) THEN "ML-DSA-87" ELSE "ML-DSA-65"
        IN  call.out = ProbeSucceeds(alg, p, s)

(***************************************************************************)
(* Properties of the message layer                                         *)
(***************************************************************************)
\* C25: decrypt_message applies the checks of validate_message (required
\* header fields and types, and for encrypted:false a value.type within
\* text, image, video, audio, file, thumbnail) before any signature
\* verification or decryption, so a record that validate_message rejects is
\* never returned by decrypt_message.
C25_StructuralValidationFirst ==
    (call.fn = "decrypt_message" /\ ~is_valid_message(call.in.message_str)) =>
        /\ call.out.k # "some"
        /\ \A i \in DOMAIN call.steps : call.steps[i] # "verify_identity_key"

\* the last call is decrypt_message on a correctly signed message with
\* encrypted:false, the caller's roomid and a timestamp in the window
CleartextInWindow ==
    /\ Genuine
    /\ MessageMember("encrypted") = JBool(FALSE)
    /\ SameRoomid
    /\ WithinWindow

\* C26: for a correctly signed, fresh, roomid-matching message with
\* encrypted:false, decrypt_message returns a record whose value is the
\* message's value and whose channel, timestamp, isLarge and original equal
\* the message's, without validating or using room_key_json (an invalid room
\* key does not cause rejection).
C26_CleartextPassThrough ==
    CleartextInWindow =>
        /\ call.out.k = "some"
        /\ \A name \in {"value", "channel", "timestamp", "isLarge", "original"} :
            call.out.v.doc.o[name] = MessageMember(name)

(***************************************************************************)
(* Properties of the verify functions                                      *)
(***************************************************************************)
\* C27: for every signing role R, verify of R returns false when the public
\* record's keyType is not R's public tag or when the signed envelope's
\* keyType is not R's tag, even if the signature is a valid signature of the
\* data under the key in the record.
C27_VerifyChecksDiscriminators ==
    (/\ call.fn = "verify_data"
     /\ \/ F(call.in.pub_json, "keyType") # Lit(call.role \o "KeyPublic")
        \/ F(call.in.sign_json, "keyType") # Lit(SignTag(call.role)))
        => call.out = FALSE

(***************************************************************************)
(* The freshness check over the unsigned 64-bit range                      *)
(***************************************************************************)
\* C28: for all 64-bit values of the message timestamp and of
\* server_timestamp, decrypt_message of a correctly signed message is absent
\* whenever the two are more than 60000 ms apart over the natural numbers,
\* and the call never aborts, in either build.
C28_FreshnessWholeRange ==
    Genuine => /\ call.out # Panic
               /\ ~WithinWindow => call.out = None

(***************************************************************************)
(* The keyHash of the envelopes the generators return                      *)
(***************************************************************************)
\* the hashes that can be computed from a master public record alone
PublicMaterialHashes(pub_json) == {key_hash(pub_json), key_hash(F(pub_json, "key"))}

\* C29: the keyHash of the signed envelope returned by a generator of a role
\* with a parent signer is the hash of the master public record or of its key
\* member (the record passed, or the one paired with the private record
\* used), never a hash of the master private record.
C29_GeneratorKeyHash ==
    SignedTriple =>
        LET sign == call.out.v.sign.v IN
        /\ F(sign, "keyHash") # key_hash(call.in.master_private)
        /\ \/ F(sign, "keyHash") \in PublicMaterialHashes(call.in.master_public)
           \/ \E m \in Seeds :
                /\ MasterKeys(m).priv = call.in.master_private
                /\ F(sign, "keyHash") \in PublicMaterialHashes(MasterKeys(m).pub)

(***************************************************************************)
(* The shape of a decrypted message                                        *)
(***************************************************************************)
\* the last call is decrypt_message on an encrypted message as sent, and
\* decrypt_data_room_key gave back the plaintext encrypt_message was given
Decrypted ==
    /\ ReachedDecryption
    /\ call.steps[Len(call.steps)] = "decrypt_data_room_key"
    /\ Decrypts

\* C30: when the decryption step of decrypt_message succeeds, the result is
\* absent if the plaintext is not parseable JSON; otherwise it is given, with
\* encrypted false and value {type, content} where content is the plaintext
\* verbatim and type is "text" if the plaintext has a text member, "image"
\* if it has none but has a uri member (video contents included), and "text"
\* otherwise.
C30_DecryptedShape ==
    Decrypted =>
        LET plain == prev.in.message_value_json
            parsed == from_str_Value(plain)
            type == IF parsed.k # "some" THEN "none"
                    ELSE IF Get(parsed.v, "text").t # "absent" THEN "text"
                    ELSE IF Get(parsed.v, "uri").t # "absent" THEN "image"
                    ELSE "text"
        IN  IF parsed.k # "some" THEN call.out = None
            ELSE /\ call.out.k = "some"
                 /\ call.out.v.doc.o.encrypted = JBool(FALSE)
                 /\ call.out.v.doc.o.value =
                        JObj([type |-> JStr(Lit(type)), content |-> JStr(plain)])

\* a video content came back reported as an image
C30_Witness ==
    /\ Decrypted
    /\ prev.in.message_value_json = VideoContent
    /\ call.out.k = "some"
    /\ call.out.v.doc.o.value.o.type = JStr(Lit("image"))

====
